---- MODULE Spec2Model ----
(***************************************************************************)
(* A model of the simulation core of eportal: the uniform grid, the        *)
(* grid-pruned visibility query (get_visible!), and the per-tick sweep of   *)
(* main() over the bodies with its buffered removals and insertions.        *)
(* Specifications: VisSpec (get_visible! alone), Spec (the ticks), MoreSpec  *)
(* (the ticks from worlds with deaths and hunts) and MoreLiveSpec (the same *)
(* with the fairness of the main loop), PlantSpec and PlantLiveSpec (the    *)
(* ticks with plants dying off and growing under a condition), SelSpec and  *)
(* PickSpec (the food selection of one body alone) and BootSpec (main()     *)
(* from config_setup on).                                                   *)
(*                                                                          *)
(* Numbers.  The program computes in f32.  The model computes in exact      *)
(* integer arithmetic on a lattice: positions, speeds and vision distances  *)
(* are integers, energies are integers counted in quanta of 1/EnergyUnit,   *)
(* so that the halving at procreation is exact, as it is for binary         *)
(* floats.  Square roots only occur under floor(), where they are computed  *)
(* exactly (FloorSqrt, CeilSqrt).  In the sweep all entities lie on one     *)
(* horizontal line, which makes "move by speed towards the target" exact.   *)
(***************************************************************************)
EXTENDS Integers, FiniteSets, Sequences, TLC

VARIABLES
    (* the visibility query on its own *)
    vis_body,       \* the querying body: [pos, vision_distance]
    vis_items,      \* cell -> (id -> [pos]) : the bags the query reads
    vis_out,        \* the ids get_visible! inserted into visible_x
    vis_done,       \* whether the query has run
    (* the food selection on its own *)
    sel_body,       \* the id of the selecting body
    sel_food,       \* the FoodInfo values `food` may hold after main.rs:394-540
    sel_done,       \* whether the selection has run
    (* the start of main() *)
    config_file,    \* what read_to_string and from_str find (utils.rs:38, 46)
    configured,     \* whether config_setup has set the statics (utils.rs:56-71)
    (* the simulation *)
    bodies,         \* BodyId -> Body                      (main.rs:122)
    plants,         \* Cell -> (PlantId -> Plant)          (main.rs:124)
    crosses,        \* Cell -> (CrossId -> Cross)          (main.rs:126)
    new_bodies,     \* BodyId -> Body, this tick's births  (main.rs:238)
    removed_plants, \* PlantId -> pos                      (main.rs:240)
    removed_bodies, \* set of BodyId                       (main.rs:242)
    removed_crosses,\* CrossId -> pos                      (main.rs:243)
    plants_n,       \* the plant counter                   (main.rs:155)
    condition,      \* None or (Condition, (Instant, Duration)) (main.rs:119)
    now,            \* the monotonic clock, in ticks
    next_id,        \* the next fresh Instant used as an identity
    births,         \* number of procreations so far (bounded)
    config,         \* the statics main() sets before the loop (main.rs:90-94)
    pc,             \* "start" before a tick, "sweep" in the loop of main.rs:313, "end" after it
    todo,           \* bodies the sweep has not visited yet
    last,           \* what the last step did (observation only)
    consumed        \* the <<type, id>> eaten so far in this tick (observation only)

vis_vars == <<vis_body, vis_items, vis_out, vis_done>>
sel_vars == <<sel_body, sel_food, sel_done>>
boot_vars == <<config_file, configured>>
sim_vars == <<config_file, configured, bodies, plants, crosses, new_bodies, removed_plants,
              removed_bodies, removed_crosses, plants_n, condition, now, next_id,
              births, config, pc, todo, last, consumed>>
vars == <<vis_vars, sel_vars, sim_vars>>

----------------------------------------------------------------------------
(* Bounds of the model *)

\* largest vision radius the stand-alone visibility query is tried with
MaxRadius == 9
\* number of ticks a behaviour runs
MaxTicks == 2
\* number of procreations in a behaviour
MaxBirths == 1

----------------------------------------------------------------------------
(* Arithmetic helpers *)

Min(a, b) == IF a <= b THEN a ELSE b
Max(a, b) == IF a >= b THEN a ELSE b
Abs(a) == IF a >= 0 THEN a ELSE -a
Sq(a) == a * a

\* floor(a / b) for b > 0, also for negative a
FloorDiv(a, b) == IF a >= 0 THEN a \div b ELSE -((-a + b - 1) \div b)

\* floor(sqrt(d)) and ceil(sqrt(d)) for d >= 0
FloorSqrt(d) == CHOOSE k \in 0..d : Sq(k) <= d /\ Sq(k + 1) > d
CeilSqrt(d) == CHOOSE k \in 0..d : Sq(k) >= d /\ (k = 0 \/ Sq(k - 1) < d)

RECURSIVE Pow2(_)
Pow2(n) == IF n = 0 THEN 1 ELSE 2 * Pow2(n - 1)

\* the empty map
NoMap == [x \in {} |-> 0]
\* map m without key k, and with k bound to v
Without(m, k) == [x \in DOMAIN m \ {k} |-> m[x]]
With(m, k, v) == [x \in DOMAIN m \cup {k} |-> IF x = k THEN v ELSE m[x]]

----------------------------------------------------------------------------
(* Grid *)

cell_width == 4
cell_height == 3
columns == 6
rows == 3

area_x == cell_width * columns
area_y == cell_height * rows

Cells == [i : 0..rows - 1, j : 0..columns - 1]

Pos(x, y) == [x |-> x, y |-> y]

\* the position whose coordinates are NaN (0.0 * infinity, main.rs:378-385):
\* it stays NaN under every sum, no comparison of Body::wrap holds for it, and
\* it is within no vision distance of any point; here a point off the arena,
\* farther from every point of it than any vision distance
NaNPos == Pos(0 - area_x, 0 - area_y)

\* squared Euclidean distance (Vec2::distance, squared)
DistSq(p, q) == Sq(p.x - q.x) + Sq(p.y - q.y)

\* Cells::get_cell_by_pos: the cell owning a position, clamped into the grid
get_cell_by_pos(p) ==
    [i |-> Max(0, Min(rows - 1, FloorDiv(p.y, cell_height))),
     j |-> Max(0, Min(columns - 1, FloorDiv(p.x, cell_width)))]

----------------------------------------------------------------------------
(* get_visible!  (body.rs:115-196) *)

\* body.rs:126-131: the rows and columns of the square around the circle
VisIMin(b, r) == Max(FloorDiv(b - r, cell_height), 0)
VisIMaxMutant(b, r) == FloorDiv(b + r, cell_height)
VisIMax(b, r) == Min(FloorDiv(b + r, cell_height), rows - 1)
VisJMin(a, r) == Max(FloorDiv(a - r, cell_width), 0)
VisJMax(a, r) == Min(FloorDiv(a + r, cell_width), columns - 1)

\* body.rs:148-149: the row boundary of row i that is nearest to the centre
IForLineMutant(i, circle_center_i) == IF i < circle_center_i THEN i ELSE i + 1
IForLine(i, circle_center_i) == IF i < circle_center_i THEN i + 1 ELSE i

\* body.rs:145-161: the columns kept for row i.  delta = r * sqrt(1 - ((e - b) / r)^2)
\* is sqrt(r^2 - (e - b)^2); under floor() with integer a and w,
\* floor((a - delta) / w) = floor((a - ceil(delta)) / w) and
\* floor((a + delta) / w) = floor((a + floor(delta)) / w).
\* A negative radicand is a NaN in f32: NaN.max(0.0) = 0.0 and NaN.min(x) = x.
JRangeForI(a, b, r, i) ==
    LET circle_center_i == get_cell_by_pos(Pos(a, b)).i
        e == IForLine(i, circle_center_i) * cell_height
        d == Sq(r) - Sq(e - b)
    IN  IF i = circle_center_i
        THEN VisJMin(a, r)..VisJMax(a, r)
        ELSE IF d < 0 \/ r = 0
        THEN 0..columns - 1
        ELSE Max(FloorDiv(a - CeilSqrt(d), cell_width), 0)
             ..Min(FloorDiv(a + FloorSqrt(d), cell_width), columns - 1)

\* body.rs:164-181: the corner of cell (i, j) farthest from the centre is inside
FullyCovered(a, b, r, i, j) ==
    LET i_delta == IF 2 * i * cell_height + cell_height > 2 * b THEN 1 ELSE 0
        j_delta == IF 2 * j * cell_width + cell_width > 2 * a THEN 1 ELSE 0
    IN  Sq((j + j_delta) * cell_width - a) + Sq((i + i_delta) * cell_height - b) < Sq(r)

\* the whole macro: the ids inserted into visible_x, reading the bags `x`
GetVisible(pos, vision_distance, x) ==
    LET a == pos.x
        b == pos.y
        r == vision_distance
    IN  UNION { UNION { { id \in DOMAIN x[[i |-> i, j |-> j]] :
                            \/ FullyCovered(a, b, r, i, j)
                            \/ DistSq(pos, x[[i |-> i, j |-> j]][id].pos) <= Sq(r) }
                        : j \in JRangeForI(a, b, r, i) }
                : i \in VisIMin(b, r)..VisIMax(b, r) }

----------------------------------------------------------------------------
(* Program constants.  Energies are written in whole units and converted   *)
(* to quanta by U(); rates c are written as denominators, c = 1 / DEN.      *)
(* constants.rs and the configuration file are not among the sources: the   *)
(* values are those of a small configuration.                               *)

\* one energy unit in quanta: every energy that is ever halved stays integral
EnergyUnit == Pow2(MaxBirths)
U(n) == n * EnergyUnit

MIN_ENERGY == 2
MIN_GAP == 1
LIFESPAN == 6
CROSS_LIFESPAN == 1
CONST_FOR_LIFESPAN_DEN == 64
ENERGY_SPENT_CONST_FOR_MASS_DEN == 16
ENERGY_SPENT_CONST_FOR_SKILLS_DEN == 2
ENERGY_SPENT_CONST_FOR_VISION_DISTANCE_DEN == 64
ENERGY_SPENT_CONST_FOR_MOVEMENT_DEN == 256
DEVIATION_DEN == 4
AVERAGE_ENERGY == 10
AVERAGE_SPEED == 4
AVERAGE_VISION_DISTANCE == 8
AVERAGE_DIVISION_THRESHOLD == 12
SPEEDVIRUS_SPEED_DECREASE_DEN == 2
SPEEDVIRUS_ENERGY_SPENT_FOR_HEALING == 1
SPEEDVIRUS_HEAL_ENERGY == 2
VISIONVIRUS_VISION_DISTANCE_DECREASE_DEN == 4
VISIONVIRUS_ENERGY_SPENT_FOR_HEALING == 1
VISIONVIRUS_HEAL_ENERGY == 3
BANANA_ENERGY == 4
GRASS_ENERGY == 2

Skill == {"DoNotCompeteWithRelatives", "AliveWhenArrived", "ProfitableWhenArrived",
          "PrioritizeFasterChasers", "AvoidNewViruses", "WillArriveFirst",
          "EatCrossesOfMyType", "AvoidInfectedCrosses"}
Virus == {"SpeedVirus", "VisionVirus"}

----------------------------------------------------------------------------
(* Status (body.rs:36-43), as records of one shape *)

NoPos == Pos(0, 0)
StIdle == [k |-> "Idle", id |-> 0, pos |-> NoPos, t |-> "-", bt |-> 0]
StCross == [k |-> "Cross", id |-> 0, pos |-> NoPos, t |-> "-", bt |-> 0]
\* Walking(pos_deviation)
StWalking(d) == [k |-> "Walking", id |-> 0, pos |-> d, t |-> "-", bt |-> 0]
\* FollowingTarget(id, pos, type)
StFollowing(id, pos, t) == [k |-> "FollowingTarget", id |-> id, pos |-> pos, t |-> t, bt |-> 0]
\* EscapingBody(id, body_type)
StEscaping(id, bt) == [k |-> "EscapingBody", id |-> id, pos |-> NoPos, t |-> "-", bt |-> bt]

\* the fields of a cloned Body that readers of followed_by use (body.clone())
Snapshot(body) == [pos |-> body.pos, speed |-> body.speed, body_type |-> body.body_type]

\* on the lattice line the distance is the exact root of DistSq
Dist(p, q) == FloorSqrt(DistSq(p, q))

----------------------------------------------------------------------------
(* Viruses *)

VirusCost(virus) ==
    IF virus = "SpeedVirus" THEN U(SPEEDVIRUS_ENERGY_SPENT_FOR_HEALING)
    ELSE U(VISIONVIRUS_ENERGY_SPENT_FOR_HEALING)
VirusHealEnergy(virus) ==
    IF virus = "SpeedVirus" THEN U(SPEEDVIRUS_HEAL_ENERGY)
    ELSE U(VISIONVIRUS_HEAL_ENERGY)

\* Body::apply_virus (body.rs:457-468); the product is rounded down to the lattice
apply_virus(body, virus) ==
    IF virus = "SpeedVirus"
    THEN [body EXCEPT !.speed = body.speed - body.speed \div SPEEDVIRUS_SPEED_DECREASE_DEN]
    ELSE [body EXCEPT !.vision_distance =
             body.vision_distance
             - body.vision_distance \div VISIONVIRUS_VISION_DISTANCE_DECREASE_DEN]

\* apply_virus for every virus of a set (the two effects touch different fields)
RECURSIVE ApplyViruses(_, _)
ApplyViruses(body, vs) ==
    IF vs = {} THEN body
    ELSE LET v == CHOOSE v \in vs : TRUE
         IN  ApplyViruses(apply_virus(body, v), vs \ {v})

\* body.rs:448: a virus the body already has is left alone
IsNewVirusMutant(body, virus) == TRUE
IsNewVirus(body, virus) == virus \notin DOMAIN body.viruses

\* Body::get_viruses (body.rs:446-453) without the call of apply_virus
get_virusesMutant(body, viruses) ==
    LET fresh == {v \in DOMAIN viruses : IsNewVirus(body, v)}
    IN  [body EXCEPT !.viruses =
            [v \in DOMAIN body.viruses \cup fresh |->
                IF v \in fresh THEN 0 ELSE body.viruses[v]]]
\* Body::get_viruses (body.rs:446-453)
get_viruses(body, viruses) ==
    LET fresh == {v \in DOMAIN viruses : IsNewVirus(body, v)}
        marked == [body EXCEPT !.viruses =
                      [v \in DOMAIN body.viruses \cup fresh |->
                          IF v \in fresh THEN 0 ELSE body.viruses[v]]]
    IN  ApplyViruses(marked, fresh)

RECURSIVE SumCost(_)
SumCost(vs) ==
    IF vs = {} THEN 0
    ELSE LET v == CHOOSE v \in vs : TRUE IN VirusCost(v) + SumCost(vs \ {v})

\* body.rs:599-609: the viruses kept by retain()
RetainsVirus(virus, energy_spent_for_healing) ==
    energy_spent_for_healing <= VirusHealEnergy(virus)

\* Body::handle_viruses (body.rs:573-610)
handle_viruses(body) ==
    LET healed == [v \in DOMAIN body.viruses |-> body.viruses[v] + VirusCost(v)]
        kept == {v \in DOMAIN healed : RetainsVirus(v, healed[v])}
    IN  [body EXCEPT !.energy = Max(body.energy - SumCost(DOMAIN body.viruses), 0),
                     !.viruses = [v \in kept |-> healed[v]]]

----------------------------------------------------------------------------
(* Energy and lifespan *)

\* the three status-independent terms of the upkeep, each rounded to units
MassCost(body) == U((body.energy \div EnergyUnit) \div ENERGY_SPENT_CONST_FOR_MASS_DEN)
SkillsCost(body) == U(Cardinality(body.skills) \div ENERGY_SPENT_CONST_FOR_SKILLS_DEN)
VisionCost(body) ==
    U(Sq(body.vision_distance) \div ENERGY_SPENT_CONST_FOR_VISION_DISTANCE_DEN)
\* c_move * speed^2 * energy
MoveCost(body, energy) ==
    U((Sq(body.speed) * (energy \div EnergyUnit)) \div ENERGY_SPENT_CONST_FOR_MOVEMENT_DEN)

\* Body::handle_lifespan (body.rs:692-700)
handle_lifespan(body) ==
    IF body.status # StIdle
    THEN [body EXCEPT !.lifespan =
             Max(body.lifespan
                 - (Sq(body.speed) * (body.energy \div EnergyUnit)) \div CONST_FOR_LIFESPAN_DEN,
                 0)]
    ELSE body

\* Body::handle_energy (body.rs:664-689), the energy it leaves
handle_energy(body) ==
    LET e1 == body.energy - (MassCost(body) + SkillsCost(body) + VisionCost(body))
        e2 == IF body.status # StIdle THEN e1 - MoveCost(body, e1) ELSE e1
    IN  [body EXCEPT !.energy = e2]

\* Body::wrap (body.rs:333-345)
wrap(pos) ==
    IF pos = NaNPos THEN NaNPos ELSE
    Pos(IF pos.x >= area_x THEN MIN_GAP ELSE IF pos.x <= 0 THEN area_x - MIN_GAP ELSE pos.x,
        IF pos.y >= area_y THEN MIN_GAP ELSE IF pos.y <= 0 THEN area_y - MIN_GAP ELSE pos.y)

----------------------------------------------------------------------------
(* Skill predicates (body.rs:870-1095).  A travel time is the quotient       *)
(* d / v of a distance and a speed; times are compared by cross-multiplying. *)

\* Plant::get_contained_energy
get_contained_energy(plant) ==
    IF plant.kind = "Banana" THEN U(BANANA_ENERGY) ELSE U(GRASS_ENERGY)

\* Body::get_spent_energy (body.rs:740-749) for time = d / v
get_spent_energy(body, d, v) ==
    U((d * Sq(body.speed) * (body.energy \div EnergyUnit))
          \div (v * ENERGY_SPENT_CONST_FOR_MOVEMENT_DEN))
    + MassCost(body) + SkillsCost(body) + VisionCost(body)

handle_profitable_when_arrived_body(body, other_body) ==
    IF "ProfitableWhenArrived" \in body.skills
    THEN LET divisor == body.speed - other_body.speed
         IN  IF divisor <= 0 THEN FALSE
             ELSE get_spent_energy(body, Dist(body.pos, other_body.pos), divisor)
                      < other_body.energy
    ELSE TRUE

handle_profitable_when_arrived_plant(body, plant) ==
    IF "ProfitableWhenArrived" \in body.skills
    THEN get_spent_energy(body, Dist(body.pos, plant.pos), body.speed)
             < get_contained_energy(plant)
    ELSE TRUE

handle_profitable_when_arrived_cross(body, cross) ==
    IF "ProfitableWhenArrived" \in body.skills
    THEN get_spent_energy(body, Dist(body.pos, cross.pos), body.speed) < cross.energy
    ELSE TRUE

handle_alive_when_arrived_cross(body, cross) ==
    IF "AliveWhenArrived" \in body.skills
    THEN body.energy - get_spent_energy(body, Dist(body.pos, cross.pos), body.speed)
             > U(MIN_ENERGY)
    ELSE TRUE

\* body.rs:934-954 with a body that is not faster let through
handle_alive_when_arrived_bodyMutant(body, other_body) ==
    IF "AliveWhenArrived" \in body.skills
    THEN LET divisor == body.speed - other_body.speed
         IN  IF divisor <= 0 THEN TRUE
             ELSE body.energy
                      - get_spent_energy(body, Dist(body.pos, other_body.pos), divisor)
                      > U(MIN_ENERGY)
    ELSE TRUE
\* body.rs:934-954
handle_alive_when_arrived_body(body, other_body) ==
    IF "AliveWhenArrived" \in body.skills
    THEN LET divisor == body.speed - other_body.speed
         IN  IF divisor <= 0 THEN FALSE
             ELSE body.energy
                      - get_spent_energy(body, Dist(body.pos, other_body.pos), divisor)
                      > U(MIN_ENERGY)
    ELSE TRUE

handle_alive_when_arrived_plant(body, plant) ==
    IF "AliveWhenArrived" \in body.skills
    THEN body.energy - get_spent_energy(body, Dist(body.pos, plant.pos), body.speed)
             > U(MIN_ENERGY)
    ELSE TRUE

\* body.rs:973-1000, for a cross and for a body alike
handle_avoid_new_viruses(body, other) ==
    IF "AvoidNewViruses" \in body.skills
    THEN \A virus \in DOMAIN other.viruses : virus \in DOMAIN body.viruses
    ELSE TRUE

handle_do_not_compete_with_relatives(body, body_id, followed_by) ==
    IF "DoNotCompeteWithRelatives" \in body.skills
    THEN \A other_body_id \in DOMAIN followed_by :
             \/ other_body_id = body_id
             \/ followed_by[other_body_id].body_type # body.body_type
    ELSE TRUE

\* body.rs:1018-1035 and 1069-1086 with the comparison of the times reversed
handle_will_arrive_first_foodMutant(body, body_id, food) ==
    IF "WillArriveFirst" \in body.skills
    THEN \A chaser_id \in DOMAIN food.followed_by :
             \/ chaser_id = body_id
             \/ LET chaser == food.followed_by[chaser_id]
                IN  Dist(body.pos, food.pos) * chaser.speed
                        > Dist(chaser.pos, food.pos) * body.speed
    ELSE TRUE
\* body.rs:1018-1035 and 1069-1086: a cross or a plant; time < chaser's time
handle_will_arrive_first_food(body, body_id, food) ==
    IF "WillArriveFirst" \in body.skills
    THEN \A chaser_id \in DOMAIN food.followed_by :
             \/ chaser_id = body_id
             \/ LET chaser == food.followed_by[chaser_id]
                IN  Dist(body.pos, food.pos) * chaser.speed
                        < Dist(chaser.pos, food.pos) * body.speed
    ELSE TRUE

\* body.rs:1038-1066
handle_will_arrive_first_body(body, body_id, other_body) ==
    IF "WillArriveFirst" \in body.skills
    THEN LET delta == body.speed - other_body.speed
         IN  IF delta <= 0 THEN FALSE
             ELSE \A chaser_id \in DOMAIN other_body.followed_by :
                     \/ chaser_id = body_id
                     \/ LET chaser == other_body.followed_by[chaser_id]
                            chaser_delta == chaser.speed - other_body.speed
                        IN  /\ chaser_delta > 0
                            /\ Dist(body.pos, other_body.pos) * chaser_delta
                                   < Dist(chaser.pos, other_body.pos) * delta
    ELSE TRUE

\* body.rs:1089-1095 with every cross let through
handle_eat_crosses_of_my_typeMutant(body, cross) == TRUE
\* body.rs:1089-1095
handle_eat_crosses_of_my_type(body, cross) ==
    \/ body.body_type # cross.body_type
    \/ "EatCrossesOfMyType" \in body.skills

----------------------------------------------------------------------------
(* Food selection (main.rs:393-540) *)

\* all entries of the bags of a store, as one map id -> entity
CellOfId(store, id) == CHOOSE c \in Cells : id \in DOMAIN store[c]
AllIds(store) == UNION {DOMAIN store[c] : c \in Cells}
Entity(store, id) == store[CellOfId(store, id)][id]

\* min_by over a set of ids: the ids at the least distance (ties: any of them)
Closest(pos, ids, PosOf(_)) ==
    {id \in ids : \A other \in ids : DistSq(pos, PosOf(id)) <= DistSq(pos, PosOf(other))}

\* main.rs:414-430: the visible crosses that pass the filters
EligibleCrosses(W, body_id) ==
    LET body == W.bodies[body_id]
    IN  {id \in GetVisible(body.pos, body.vision_distance, W.crosses) :
            LET cross == Entity(W.crosses, id)
            IN  /\ handle_eat_crosses_of_my_type(body, cross)
                /\ handle_alive_when_arrived_cross(body, cross)
                /\ handle_profitable_when_arrived_cross(body, cross)
                /\ handle_avoid_new_viruses(body, cross)
                /\ handle_will_arrive_first_food(body, body_id, cross)
                /\ handle_do_not_compete_with_relatives(body, body_id, cross.followed_by)}

\* main.rs:454-468
EligiblePlants(W, body_id, removed) ==
    LET body == W.bodies[body_id]
    IN  {id \in GetVisible(body.pos, body.vision_distance, W.plants) :
            LET plant == Entity(W.plants, id)
            IN  /\ id \notin DOMAIN removed
                /\ handle_alive_when_arrived_plant(body, plant)
                /\ handle_profitable_when_arrived_plant(body, plant)
                /\ handle_do_not_compete_with_relatives(body, body_id, plant.followed_by)
                /\ handle_will_arrive_first_food(body, body_id, plant)}

\* main.rs:470-480 with Grass asked for before Banana
ClosestPlantsMutant(W, body_id, removed) ==
    LET body == W.bodies[body_id]
        ok == EligiblePlants(W, body_id, removed)
        PosOf(id) == Entity(W.plants, id).pos
        bananas == {id \in ok : Entity(W.plants, id).kind = "Banana"}
        grass == {id \in ok : Entity(W.plants, id).kind = "Grass"}
    IN  IF grass # {} THEN Closest(body.pos, grass, PosOf)
        ELSE Closest(body.pos, bananas, PosOf)
\* main.rs:470-480 with Body::find_closest_plant (body.rs:854-868)
ClosestPlants(W, body_id, removed) ==
    LET body == W.bodies[body_id]
        ok == EligiblePlants(W, body_id, removed)
        PosOf(id) == Entity(W.plants, id).pos
        bananas == {id \in ok : Entity(W.plants, id).kind = "Banana"}
        grass == {id \in ok : Entity(W.plants, id).kind = "Grass"}
    IN  IF bananas # {} THEN Closest(body.pos, bananas, PosOf)
        ELSE Closest(body.pos, grass, PosOf)

\* main.rs:499-521
EligibleBodies(W, body_id, removed) ==
    LET body == W.bodies[body_id]
    IN  {other_body_id \in DOMAIN W.bodies :
            LET other_body == W.bodies[other_body_id]
            IN  /\ body.body_type # other_body.body_type
                /\ body_id # other_body_id
                /\ body.energy > other_body.energy
                /\ DistSq(body.pos, other_body.pos) <= Sq(body.vision_distance)
                /\ other_body_id \notin removed
                /\ handle_alive_when_arrived_body(body, other_body)
                /\ handle_profitable_when_arrived_body(body, other_body)
                /\ handle_avoid_new_viruses(body, other_body)
                /\ handle_will_arrive_first_body(body, body_id, other_body)
                /\ handle_do_not_compete_with_relatives(body, body_id, other_body.followed_by)}

FoodInfo(id, food_type, pos, energy, viruses) ==
    [id |-> id, food_type |-> food_type, pos |-> pos, energy |-> energy, viruses |-> viruses]

\* the energy put into FoodInfo at selection (main.rs:442, 488-489, 533)
FoodEnergy(food_type, entity) ==
    IF food_type = "Plant" THEN get_contained_energy(entity) ELSE entity.energy

\* main.rs:394-540: the FoodInfo values `food` may hold; {} when food is None
Foods(W, body_id, removed_p, removed_b) ==
    LET body == W.bodies[body_id]
        cs == EligibleCrosses(W, body_id)
        ps == ClosestPlants(W, body_id, removed_p)
        bs == EligibleBodies(W, body_id, removed_b)
        CrossPos(id) == Entity(W.crosses, id).pos
        BodyPos(id) == W.bodies[id].pos
    IN  IF cs # {}
        THEN {FoodInfo(id, "Cross", Entity(W.crosses, id).pos,
                       FoodEnergy("Cross", Entity(W.crosses, id)),
                       Entity(W.crosses, id).viruses)
                 : id \in Closest(body.pos, cs, CrossPos)}
        ELSE IF ps # {}
        THEN {FoodInfo(id, "Plant", Entity(W.plants, id).pos,
                       FoodEnergy("Plant", Entity(W.plants, id)), NoMap)
                 : id \in ps}
        ELSE {FoodInfo(id, "Body", W.bodies[id].pos,
                       FoodEnergy("Body", W.bodies[id]), W.bodies[id].viruses)
                 : id \in Closest(body.pos, bs, BodyPos)}

----------------------------------------------------------------------------
(* The reference graph: followed_by maps and their cleanup *)

\* the three registries a turn reads and writes
World(b, p, c) == [bodies |-> b, plants |-> p, crosses |-> c]

\* `food: None`
NoFood == -1

\* body.rs:1106-1114: which target, if any, the cleanup unregisters the body from
CleanupTargetMutant(status, food_id) ==
    [k |-> "FollowingTarget", id |-> NoFood, pos |-> NoPos, t |-> "-", bt |-> 0]
CleanupTarget(status, food_id) ==
    IF status.k = "FollowingTarget" /\ ~(food_id # NoFood /\ food_id = status.id)
    THEN status
    ELSE [k |-> "FollowingTarget", id |-> NoFood, pos |-> NoPos, t |-> "-", bt |-> 0]

\* Body::followed_by_cleanup (body.rs:1098-1144)
followed_by_cleanup(W, body_id, food_id) ==
    LET target == CleanupTarget(W.bodies[body_id].status, food_id)
        cell == get_cell_by_pos(target.pos)
    IN  IF target.id = NoFood THEN W
        ELSE IF target.t = "Body"
        THEN IF target.id \in DOMAIN W.bodies
             THEN [W EXCEPT !.bodies[target.id].followed_by = Without(@, body_id)]
             ELSE W
        ELSE IF target.t = "Cross"
        THEN IF target.id \in DOMAIN W.crosses[cell]
             THEN [W EXCEPT !.crosses[cell][target.id].followed_by = Without(@, body_id)]
             ELSE W
        ELSE IF target.id \in DOMAIN W.plants[cell]
             THEN [W EXCEPT !.plants[cell][target.id].followed_by = Without(@, body_id)]
             ELSE W

\* Body::set_status (body.rs:838-851)
set_status(W, body_id, status) ==
    [followed_by_cleanup(W, body_id, NoFood) EXCEPT !.bodies[body_id].status = status]

\* main.rs:578-611: register the body, as it is now, as a pursuer of the food
RegisterMutant(W, body_id, food) == W
Register(W, body_id, food) ==
    LET clone == Snapshot(W.bodies[body_id])
        cell == get_cell_by_pos(food.pos)
    IN  IF food.food_type = "Body"
        THEN [W EXCEPT !.bodies[food.id].followed_by = With(@, body_id, clone)]
        ELSE IF food.food_type = "Cross"
        THEN [W EXCEPT !.crosses[cell][food.id].followed_by = With(@, body_id, clone)]
        ELSE [W EXCEPT !.plants[cell][food.id].followed_by = With(@, body_id, clone)]

\* pos moved by `speed` along the line from pos towards `target` (sign = 1)
\* or away from it (sign = -1), d being their distance; exact on a lattice line
MoveBy(pos, target, speed, d, sign) ==
    IF pos = NaNPos \/ d = 0 THEN NaNPos ELSE
    Pos(pos.x + sign * (((target.x - pos.x) * speed) \div d),
        pos.y + sign * (((target.y - pos.y) * speed) \div d))

----------------------------------------------------------------------------
(* Body::new for an offspring (body.rs:202-330) *)

\* get_with_deviation: the band [value - part, value + part) around value,
\* part = value * DEVIATION, rounded up to the lattice
DeviationPart(value) == (value + DEVIATION_DEN - 1) \div DEVIATION_DEN
InBand(x, value) == value - DeviationPart(value) <= x /\ x < value + DeviationPart(value)
\* the draws tried: both ends of the band
get_with_deviation(value) == {value - DeviationPart(value), value + DeviationPart(value) - 1}

\* the draw of choose(rng) from a set tried: one of its elements
Draws(set) == IF set = {} THEN {} ELSE {CHOOSE x \in set : TRUE}

\* body.rs:253-278 with an insertion followed by a removal in one birth
MutatedSkillsMutant(skills) ==
    {skills} \cup {(skills \cup {x}) \ {y} : x \in Draws(Skill \ skills), y \in Draws(skills)}
\* body.rs:253-278: the skill sets a birth can produce: unchanged, one absent
\* skill inserted, or one held skill removed
MutatedSkills(skills) ==
    {skills} \cup {skills \cup {x} : x \in Draws(Skill \ skills)}
             \cup {skills \ {x} : x \in Draws(skills)}

\* body.rs:235-236: the share of the parent's energy an offspring starts with
OffspringEnergyMutant(energy) == energy
OffspringEnergy(energy) == energy \div 2

\* body.rs:724-725: the baselines handed to Body::new by handle_procreation
ProcreationBaselineMutant(body) ==
    [speed |-> body.speed, vision_distance |-> body.vision_distance]
ProcreationBaseline(body) ==
    [speed |-> body.initial_speed, vision_distance |-> body.initial_vision_distance]

\* the offspring Body::new can return for a parent, created at time `t`
Offspring(parent, t) ==
    {ApplyViruses(
        [pos |-> parent.pos,
         energy |-> OffspringEnergy(parent.energy),
         speed |-> speed,
         initial_speed |-> speed,
         vision_distance |-> vision_distance,
         initial_vision_distance |-> vision_distance,
         eating_strategy |-> parent.eating_strategy,
         division_threshold |-> division_threshold,
         skills |-> skills,
         status |-> StIdle,
         body_type |-> parent.body_type,
         lifespan |-> LIFESPAN,
         viruses |-> parent.viruses,
         followed_by |-> NoMap,
         born |-> t],
        DOMAIN parent.viruses)
     : speed \in get_with_deviation(ProcreationBaseline(parent).speed),
       vision_distance \in get_with_deviation(ProcreationBaseline(parent).vision_distance),
       division_threshold \in get_with_deviation(parent.division_threshold),
       skills \in MutatedSkills(parent.skills)}

----------------------------------------------------------------------------
(* One turn of the sweep (main.rs:313-647), for the body `id` *)

NoFoodInfo == FoodInfo(NoFood, "-", NoPos, 0, NoMap)
Did(k, id, food, energy_before) ==
    [k |-> k, id |-> id, food |-> food, energy_before |-> energy_before,
     status_before |-> IF id \in DOMAIN bodies THEN bodies[id].status ELSE StIdle,
     again |-> <<food.food_type, food.id>> \in consumed,
     offspring |-> <<>>]
Consumed(food) ==
    IF food.id = NoFood THEN consumed ELSE consumed \cup {<<food.food_type, food.id>>}

\* main.rs:316-317
AfterViruses(id) == handle_lifespan(handle_viruses(bodies[id]))
\* main.rs:320-321
IsDead(id) ==
    \/ AfterViruses(id).energy < U(MIN_ENERGY)
    \/ now - AfterViruses(id).born > AfterViruses(id).lifespan
\* main.rs:329
AfterEnergy(id) == handle_energy(AfterViruses(id))

\* main.rs:323: the dying body's status is overwritten ...
\* main.rs:319-327
TurnDie(id) ==
    /\ IsDead(id)
    /\ bodies' = [bodies EXCEPT ![id] = [AfterViruses(id) EXCEPT !.status = StCross]]
    /\ removed_bodies' = removed_bodies \cup {id}
    /\ last' = Did("die", id, NoFoodInfo, 0)
    /\ UNCHANGED <<plants, crosses, new_bodies, removed_plants, removed_crosses,
                   plants_n, next_id, births, consumed>>

\* body.rs:683-688 with the test never passing
OutOfEnergyMutant(body) == FALSE
\* body.rs:683-688: what handle_energy returns
OutOfEnergy(body) == body.energy <= 0

\* main.rs:329-331 with body.rs:683-685
TurnStarve(id) ==
    /\ ~IsDead(id)
    /\ OutOfEnergy(AfterEnergy(id))
    /\ bodies' = [bodies EXCEPT ![id] = AfterEnergy(id)]
    /\ removed_bodies' = removed_bodies \cup {id}
    /\ last' = Did("starve", id, NoFoodInfo, 0)
    /\ UNCHANGED <<plants, crosses, new_bodies, removed_plants, removed_crosses,
                   plants_n, next_id, births, consumed>>

Alive(id) == ~IsDead(id) /\ ~OutOfEnergy(AfterEnergy(id))

\* the registries as the escape and forage steps find them
WorldAfterEnergy(id) == World([bodies EXCEPT ![id] = AfterEnergy(id)], plants, crosses)

\* main.rs:334-347 without the retain of the faster chasers
ChasersMutant(body) == DOMAIN body.followed_by
\* main.rs:334-347: the chasers the body may flee from
Chasers(body) ==
    LET all == body.followed_by
        faster == {c \in DOMAIN all : all[c].speed > body.speed}
    IN  IF "PrioritizeFasterChasers" \in body.skills /\ faster # {}
        THEN faster
        ELSE DOMAIN all

\* main.rs:333-391.  A chaser recorded at the body's own position makes the
\* quotient speed / 0 infinite and the step 0 * infinity: the position becomes
\* NaN.  From a NaN position every distance is NaN and min_by takes any chaser.
TurnEscape(id) ==
    /\ Alive(id)
    /\ LET W == WorldAfterEnergy(id)
           body == W.bodies[id]
           PosOf(c) == body.followed_by[c].pos
       IN  /\ Chasers(body) # {}
           /\ \E c \in IF body.pos = NaNPos THEN Chasers(body)
                     ELSE Closest(body.pos, Chasers(body), PosOf) :
                 LET chaser == body.followed_by[c]
                     d == Dist(body.pos, chaser.pos)
                     W1 == set_status(W, id, StEscaping(c, chaser.body_type))
                 IN  /\ bodies' = [W1.bodies EXCEPT ![id].pos =
                                      wrap(MoveBy(body.pos, chaser.pos, body.speed, d, -1))]
                     /\ plants' = W1.plants
                     /\ crosses' = W1.crosses
    /\ last' = Did("escape", id, NoFoodInfo, 0)
    /\ UNCHANGED <<new_bodies, removed_plants, removed_bodies, removed_crosses,
                   plants_n, next_id, births, consumed>>

\* the eating step reached whatever followed_by holds
ForagesMutant(id) == Alive(id)
\* the body reaches the eating step
Forages(id) == Alive(id) /\ AfterEnergy(id).followed_by = NoMap

\* main.rs:542-544 with the test always passing
InReachMutant(body, food) == TRUE
\* main.rs:542-544
InReach(body, food) == DistSq(body.pos, food.pos) <= Sq(body.speed)

\* main.rs:562-625
TurnChase(id) ==
    /\ Forages(id)
    /\ LET W == WorldAfterEnergy(id)
           body == W.bodies[id]
       IN  \E food \in Foods(W, id, removed_plants, removed_bodies) :
              LET W1 == Register(followed_by_cleanup(W, id, food.id), id, food)
                  d == Dist(body.pos, food.pos)
              IN  /\ ~InReach(body, food)
                  /\ bodies' = [W1.bodies EXCEPT
                                   ![id].status = StFollowing(food.id, food.pos, food.food_type),
                                   ![id].pos = MoveBy(body.pos, food.pos, body.speed, d, 1)]
                  /\ plants' = W1.plants
                  /\ crosses' = W1.crosses
                  /\ last' = Did("chase", id, food, body.energy)
    /\ UNCHANGED <<new_bodies, removed_plants, removed_bodies, removed_crosses,
                   plants_n, next_id, births, consumed>>

\* main.rs:545: the energy the eater has after the meal
EnergyAfterFoodMutant(energy, food) == energy + food.energy + food.energy
EnergyAfterFood(energy, food) == energy + food.energy

\* main.rs:545-561 without `body.pos = food.pos`
EatMutant(body, food) ==
    LET fed == [body EXCEPT !.energy = EnergyAfterFood(body.energy, food)]
    IN  IF food.food_type = "Plant" THEN fed ELSE get_viruses(fed, food.viruses)
\* main.rs:545-561: the body, eating `food`
Eat(body, food) ==
    LET fed == [body EXCEPT !.energy = EnergyAfterFood(body.energy, food), !.pos = food.pos]
    IN  IF food.food_type = "Plant" THEN fed ELSE get_viruses(fed, food.viruses)

\* what the eating step leaves when it does not end the turn: the body after
\* the meal, or the body as it was when there is no food (main.rs:542-561)
ForageOutcomes(id) ==
    LET W == WorldAfterEnergy(id)
        body == W.bodies[id]
        foods == Foods(W, id, removed_plants, removed_bodies)
    IN  IF foods = {}
        THEN {[body |-> body, food |-> NoFoodInfo]}
        ELSE {[body |-> Eat(body, food), food |-> food] : food \in {f \in foods : InReach(body, f)}}

\* the removal sets and the counter after the eating step (main.rs:548-561)
RemovedAfter(food) ==
    /\ removed_bodies' = IF food.food_type = "Body" THEN removed_bodies \cup {food.id} ELSE removed_bodies
    /\ removed_crosses' = IF food.food_type = "Cross"
                          THEN With(removed_crosses, food.id, food.pos) ELSE removed_crosses
    /\ removed_plants' = IF food.food_type = "Plant"
                         THEN With(removed_plants, food.id, food.pos) ELSE removed_plants
    /\ plants_n' = IF food.food_type = "Plant" THEN plants_n - 1 ELSE plants_n

\* Instant::now() (body.rs:714) after a reading of `previous`: the clock is
\* monotonic, not strictly increasing, so it reads the same instant or a
\* later one
InstantNow(previous) == {previous, previous + 1}

\* Body::handle_procreation (body.rs:704-737), after the eating step; the
\* second insert replaces the first when both keys are the same instant
TurnProcreate(id) ==
    /\ Forages(id)
    /\ births < MaxBirths
    /\ \E o \in ForageOutcomes(id) :
          /\ o.body.energy > o.body.division_threshold
          /\ \E first \in Offspring(o.body, now), second \in Offspring(o.body, now) :
                /\ \E second_id \in InstantNow(next_id) :
                       new_bodies' = With(With(new_bodies, next_id, first), second_id, second)
                /\ last' = [Did("procreate", id, o.food, AfterEnergy(id).energy)
                               EXCEPT !.offspring = <<first, second>>]
          /\ bodies' = [bodies EXCEPT ![id] = o.body]
          /\ removed_bodies' = (IF o.food.food_type = "Body"
                                THEN removed_bodies \cup {o.food.id} ELSE removed_bodies)
                               \cup {id}
          /\ removed_crosses' = IF o.food.food_type = "Cross"
                                THEN With(removed_crosses, o.food.id, o.food.pos)
                                ELSE removed_crosses
          /\ removed_plants' = IF o.food.food_type = "Plant"
                               THEN With(removed_plants, o.food.id, o.food.pos)
                               ELSE removed_plants
          /\ plants_n' = IF o.food.food_type = "Plant" THEN plants_n - 1 ELSE plants_n
          /\ consumed' = Consumed(o.food)
    /\ next_id' = next_id + 2
    /\ births' = births + 1
    /\ UNCHANGED <<plants, crosses>>

\* body.rs:643-644: pos += pos_deviation
Step(pos, pos_deviation) ==
    IF pos = NaNPos THEN NaNPos
    ELSE Pos(pos.x + pos_deviation.x, pos.y + pos_deviation.y)

\* the walking angles tried: 0 and pi
WalkingDeviations(speed) == {Pos(speed, 0), Pos(-speed, 0)}

\* body.rs:624-625, 651: an Active body walks, a Passive one is set Idle
WalksMutant(body) == TRUE
Walks(body) == body.eating_strategy = "Active"

\* Body::handle_walking_idle (body.rs:614-660), after the eating step
TurnWalkIdle(id) ==
    /\ Forages(id)
    /\ \E o \in ForageOutcomes(id) :
          LET W == World([bodies EXCEPT ![id] = o.body], plants, crosses)
          IN  /\ ~(o.body.energy > o.body.division_threshold)
              /\ RemovedAfter(o.food)
              /\ consumed' = Consumed(o.food)
              /\ last' = Did(IF Walks(o.body) THEN "walk" ELSE "idle",
                             id, o.food, AfterEnergy(id).energy)
              /\ IF Walks(o.body)
                 THEN \E pos_deviation \in
                          IF o.body.status.k = "Walking" THEN {o.body.status.pos}
                          ELSE WalkingDeviations(o.body.speed) :
                        LET W1 == IF o.body.status.k = "Walking" THEN W
                                  ELSE set_status(W, id, StWalking(pos_deviation))
                        IN  /\ bodies' = [W1.bodies EXCEPT ![id].pos =
                                             wrap(Step(o.body.pos, pos_deviation))]
                            /\ plants' = W1.plants
                            /\ crosses' = W1.crosses
                 ELSE LET W1 == set_status(W, id, StIdle)
                      IN  /\ bodies' = W1.bodies
                          /\ plants' = W1.plants
                          /\ crosses' = W1.crosses
    /\ UNCHANGED <<new_bodies, next_id, births>>

\* one iteration of the for loop of main.rs:313
BodyTurn(id) ==
    /\ pc = "sweep"
    /\ id \in todo
    /\ todo' = todo \ {id}
    /\ pc' = IF todo = {id} THEN "end" ELSE "sweep"
    /\ UNCHANGED <<vis_vars, sel_vars, boot_vars, condition, now, config>>
    /\ \/ TurnDie(id)
       \/ TurnStarve(id)
       \/ TurnEscape(id)
       \/ TurnChase(id)
       \/ TurnProcreate(id)
       \/ TurnWalkIdle(id)

----------------------------------------------------------------------------
(* The start of a tick (main.rs:238-311) *)

DROUGHT_PLANT_DIE_CHANCE_MULTIPLIER == 1
RAIN_PLANTS_N_FOR_ONE_STEP_MULTIPLIER == 1

NoCondition == [kind |-> "None", timestamp |-> 0, lifetime |-> 0]
\* the lifetimes gen_range(30..60) is tried with (condition.rs:35)
ConditionLifetimes == {30, 59}

\* update_condition with `>=` for the `>` of condition.rs:24
update_conditionMutant(c, t) ==
    IF c.kind # "None"
    THEN IF t - c.timestamp >= c.lifetime THEN {NoCondition} ELSE {c}
    ELSE {NoCondition}
         \cup {[kind |-> k, timestamp |-> t, lifetime |-> l] :
                  k \in {"Drought", "Rain"}, l \in ConditionLifetimes}
\* update_condition (condition.rs:17-41): the values it can leave at time t
update_condition(c, t) ==
    IF c.kind # "None"
    THEN IF t - c.timestamp > c.lifetime THEN {NoCondition} ELSE {c}
    ELSE {NoCondition}
         \cup {[kind |-> k, timestamp |-> t, lifetime |-> l] :
                  k \in {"Drought", "Rain"}, l \in ConditionLifetimes}

\* main.rs:249-258 with a die chance of 1
NToRemoveMutant(n, c) ==
    n * (1 + IF c.kind = "Drought" THEN DROUGHT_PLANT_DIE_CHANCE_MULTIPLIER ELSE 0)
\* main.rs:249-258
NToRemove(n, c) ==
    (n * (1 + IF c.kind = "Drought" THEN DROUGHT_PLANT_DIE_CHANCE_MULTIPLIER ELSE 0))
        \div config.PLANT_DIE_CHANCE_DEN
\* main.rs:286-295
NToAdd(c) ==
    config.PLANTS_N_FOR_ONE_STEP
    + IF c.kind = "Rain"
      THEN config.PLANTS_N_FOR_ONE_STEP * RAIN_PLANTS_N_FOR_ONE_STEP_MULTIPLIER
      ELSE 0

\* the line all entities of the simulation lie on
LineY == cell_height + 1
\* Plant::randomly_spawn_plant: the positions and kinds tried
SpawnPositions == {Pos(6, LineY), Pos(18, LineY)}
PlantKind == {"Banana", "Grass"}
NewPlant(pos, kind) == [pos |-> pos, kind |-> kind, followed_by |-> NoMap]

\* n_to_add calls of randomly_spawn_plant that all use the identity first_id
RECURSIVE SpawnPlantsMutant(_, _, _)
SpawnPlantsMutant(store, first_id, n) ==
    IF n = 0 THEN {store}
    ELSE UNION {SpawnPlantsMutant([store EXCEPT ![get_cell_by_pos(pos)] =
                                       With(@, first_id, NewPlant(pos, kind))],
                                  first_id, n - 1)
                   : pos \in SpawnPositions, kind \in PlantKind}
\* n_to_add calls of randomly_spawn_plant, the k-th with identity first_id + k
RECURSIVE SpawnPlants(_, _, _)
SpawnPlants(store, first_id, n) ==
    IF n = 0 THEN {store}
    ELSE UNION {SpawnPlants([store EXCEPT ![get_cell_by_pos(pos)] =
                                 With(@, first_id, NewPlant(pos, kind))],
                            first_id + 1, n - 1)
                   : pos \in SpawnPositions, kind \in PlantKind}

TickStart ==
    /\ pc = "start"
    /\ now < MaxTicks
    /\ now' = now + 1
    /\ new_bodies' = NoMap
    /\ removed_bodies' = {}
    /\ removed_crosses' = NoMap
    /\ \E c \in update_condition(condition, now + 1) :
          /\ condition' = c
          \* main.rs:260-283: n_to_remove distinct stored plants
          /\ \E dying \in SUBSET AllIds(plants) :
                /\ Cardinality(dying) = NToRemove(plants_n, c)
                /\ removed_plants' = [id \in dying |-> Entity(plants, id).pos]
          /\ plants_n' = plants_n - NToRemove(plants_n, c) + NToAdd(c)
          /\ plants' \in SpawnPlants(plants, next_id, NToAdd(c))
          /\ next_id' = next_id + NToAdd(c)
    /\ todo' = DOMAIN bodies
    /\ pc' = IF DOMAIN bodies = {} THEN "end" ELSE "sweep"
    /\ last' = Did("start", NoFood, NoFoodInfo, 0)
    /\ consumed' = {}
    /\ UNCHANGED <<vis_vars, sel_vars, boot_vars, bodies, crosses, births, config>>

----------------------------------------------------------------------------
(* The end of a tick (main.rs:649-694) *)

\* Cross::new
CrossNew(body, t) ==
    [pos |-> body.pos, energy |-> body.energy, viruses |-> body.viruses,
     timestamp |-> t, body_type |-> body.body_type, followed_by |-> NoMap]

\* main.rs:649-654 and 689-694 left out
RemoveAllMutant(store, removed) == store
\* main.rs:649-654 and 689-694: remove the recorded ids from the bags of their cells
RemoveAll(store, removed) ==
    [c \in Cells |->
        [id \in {x \in DOMAIN store[c] :
                    ~(x \in DOMAIN removed /\ get_cell_by_pos(removed[x]) = c)}
            |-> store[c][id]]]

\* main.rs:656-661 with every cross retained
RetainCrossesMutant(store, t) == store
\* main.rs:656-661
RetainCrosses(store, t) ==
    [c \in Cells |->
        [id \in {x \in DOMAIN store[c] : t - store[c][x].timestamp <= CROSS_LIFESPAN}
            |-> store[c][id]]]

\* main.rs:664-682 without the insertion of the cross
RemoveBodyMutant(W, body_id, t) ==
    [followed_by_cleanup(W, body_id, NoFood) EXCEPT !.bodies = Without(@, body_id)]
\* main.rs:664-682: one iteration of the loop over removed_bodies
RemoveBody(W, body_id, t) ==
    LET W1 == followed_by_cleanup(W, body_id, NoFood)
        body == W1.bodies[body_id]
        cell == get_cell_by_pos(body.pos)
        W2 == IF body.status = StCross
              THEN [W1 EXCEPT !.crosses[cell] = With(@, body_id, CrossNew(body, t))]
              ELSE W1
    IN  [W2 EXCEPT !.bodies = Without(@, body_id)]

\* main.rs:663-683, in the order `order` (a sequence without repetition)
RECURSIVE RemoveBodies(_, _, _)
RemoveBodies(W, order, t) ==
    IF order = <<>> THEN W
    ELSE RemoveBodies(RemoveBody(W, Head(order), t), Tail(order), t)

\* the orders a HashSet may be iterated in
Orders(set) ==
    {o \in [1..Cardinality(set) -> set] : \A i, j \in DOMAIN o : i # j => o[i] # o[j]}

TickEnd ==
    /\ pc = "end"
    /\ \E order \in Orders(removed_bodies) :
          LET W == RemoveBodies(
                       World(bodies, plants,
                             RetainCrosses(RemoveAll(crosses, removed_crosses), now)),
                       order, now)
          IN  /\ bodies' = [id \in DOMAIN W.bodies \cup DOMAIN new_bodies |->
                               IF id \in DOMAIN new_bodies THEN new_bodies[id]
                               ELSE W.bodies[id]]
              /\ crosses' = W.crosses
              /\ plants' = RemoveAll(W.plants, removed_plants)
    /\ pc' = "start"
    /\ last' = Did("end", NoFood, NoFoodInfo, 0)
    /\ UNCHANGED <<vis_vars, sel_vars, boot_vars, new_bodies, removed_plants, removed_bodies, removed_crosses,
                   plants_n, condition, now, next_id, births, config, todo, consumed>>

----------------------------------------------------------------------------
(* The simulation: initial worlds and the specification *)

VisIdle ==
    /\ vis_body = [pos |-> Pos(1, 1), vision_distance |-> 0]
    /\ vis_items = [c \in Cells |-> NoMap]
    /\ vis_out = {}
    /\ vis_done = FALSE

SelIdle ==
    /\ sel_body = NoFood
    /\ sel_food = {}
    /\ sel_done = FALSE

\* a body at x on the line; energies in units; speed and vision as
\* <<current, initial>>
Bd(x, energy, eating_strategy, body_type, skills, viruses, speed, vision, threshold, born) ==
    [pos |-> Pos(x, LineY),
     energy |-> U(energy),
     speed |-> speed[1],
     initial_speed |-> speed[2],
     vision_distance |-> vision[1],
     initial_vision_distance |-> vision[2],
     eating_strategy |-> eating_strategy,
     division_threshold |-> U(threshold),
     skills |-> skills,
     status |-> StIdle,
     body_type |-> body_type,
     lifespan |-> LIFESPAN,
     viruses |-> viruses,
     followed_by |-> NoMap,
     born |-> born]

Pl(x, kind) == NewPlant(Pos(x, LineY), kind)
Cr(x, energy, body_type, viruses) ==
    [pos |-> Pos(x, LineY), energy |-> U(energy), viruses |-> viruses,
     timestamp |-> 0, body_type |-> body_type, followed_by |-> NoMap]

\* the bags of a store holding the given entities
Store(entities) ==
    [c \in Cells |->
        [id \in {x \in DOMAIN entities : get_cell_by_pos(entities[x].pos) = c} |-> entities[id]]]

BothInfected == [v \in Virus |-> 0]
SpeedInfected(progress) == [v \in {"SpeedVirus"} |-> U(progress)]

\* the worlds a behaviour starts from: [bodies, plants, crosses]
Scenarios ==
    { \* two bodies race for one plant; the nearer one eats it
      [bodies |-> (1 :> Bd(2, 6, "Passive", 1, {}, NoMap, <<4, 4>>, <<12, 12>>, 12, 0))
                  @@ (2 :> Bd(x2, 5, strategy, 1, {}, NoMap, <<4, 4>>, <<8, 8>>, 12, 0)),
       plants |-> (10 :> Pl(12, "Grass")),
       crosses |-> NoMap] : x2 \in {15, 20}, strategy \in {"Passive", "Active"} }
    \cup
    { \* a body with little energy chases a far plant and dies on the way
      [bodies |-> (1 :> Bd(2, e1, "Passive", 1, skills, NoMap, <<4, 4>>, <<12, 12>>, 12, 0)),
       plants |-> (10 :> Pl(12, "Banana")) @@ (11 :> Pl(20, "Grass")),
       crosses |-> NoMap] : e1 \in {2, 3}, skills \in {{}, Skill} }
    \cup
    { \* two bodies next to an infected cross
      [bodies |-> (1 :> Bd(8, 8, "Passive", 1, skills, NoMap, <<4, 4>>, <<8, 8>>, 12, 0))
                  @@ (2 :> Bd(12, 7, "Passive", 1, {}, NoMap, <<4, 4>>, <<8, 8>>, 12, 0)),
       plants |-> NoMap,
       crosses |-> (20 :> Cr(10, 3, 2, SpeedInfected(0)))] : skills \in {{}, {"AvoidNewViruses"}} }
    \cup
    { \* an infected body between two infected crosses
      [bodies |-> (1 :> Bd(8, 8, "Passive", 1, {}, SpeedInfected(p1), <<2, 4>>, <<8, 8>>, 20, 0)),
       plants |-> NoMap,
       crosses |-> (20 :> Cr(10, 3, 2, SpeedInfected(0))) @@ (21 :> Cr(12, 3, 2, SpeedInfected(1)))]
          : p1 \in {0, 1} }
    \cup
    { \* a predator, its prey, and a stronger predator of the predator
      [bodies |-> (1 :> Bd(8, 8, "Passive", 1, skills, NoMap, <<4, 4>>, <<12, 12>>, 20, 0))
                  @@ (2 :> Bd(16, 5, "Passive", 2, {}, NoMap, <<2, 2>>, <<4, 4>>, 20, 0))
                  @@ (3 :> Bd(x3, 10, "Active", 3, {}, NoMap, <<5, 5>>, <<12, 12>>, 20, 0)),
       plants |-> NoMap,
       crosses |-> NoMap] : skills \in {{}, {"PrioritizeFasterChasers"}}, x3 \in {2, 22} }
    \cup
    { \* two bodies chase one plant; the one that would not arrive first turns
      \* to a plant that comes into view
      [bodies |-> (1 :> Bd(2, 8, "Passive", 1, {"WillArriveFirst"}, NoMap, <<4, 4>>, <<12, 12>>, 20, 0))
                  @@ (2 :> Bd(9, 8, "Passive", 2, {}, NoMap, <<2, 2>>, <<4, 4>>, 20, 0)),
       plants |-> (10 :> Pl(12, "Grass")) @@ (11 :> Pl(17, kind)),
       crosses |-> NoMap] : kind \in {"Grass", "Banana"} }
    \cup
    { \* an infected body eats a plant and divides
      [bodies |-> (1 :> Bd(8, 11, "Passive", 1, {"AliveWhenArrived"}, health[1],
                           <<health[2], 8>>, <<8, 8>>, 12, 0)),
       plants |-> (10 :> Pl(10, "Banana")),
       crosses |-> NoMap] : health \in {<<NoMap, 8>>, <<SpeedInfected(0), 4>>} }

Init ==
    /\ VisIdle
    /\ SelIdle
    /\ config_file = "valid"
    /\ configured = TRUE
    /\ \E w \in Scenarios :
          /\ bodies = w.bodies
          /\ plants = Store(w.plants)
          /\ crosses = Store(w.crosses)
          /\ plants_n = Cardinality(DOMAIN w.plants)
    /\ new_bodies = NoMap
    /\ removed_plants = NoMap
    /\ removed_bodies = {}
    /\ removed_crosses = NoMap
    /\ condition = NoCondition
    /\ now = 0
    /\ next_id = 30
    /\ births = 0
    /\ config = [PLANTS_N_FOR_ONE_STEP |-> 0, PLANT_DIE_CHANCE_DEN |-> 4]
    /\ pc = "start"
    /\ todo = {}
    /\ last = [k |-> "init", id |-> NoFood, food |-> NoFoodInfo, energy_before |-> 0,
                status_before |-> StIdle, again |-> FALSE, offspring |-> <<>>]
    /\ consumed = {}

Next ==
    \/ TickStart
    \/ \E id \in todo : BodyTurn(id)
    \/ TickEnd

Spec == Init /\ [][Next]_vars

----------------------------------------------------------------------------
(* The same ticks from further worlds: bodies that die, starve or are hunted *)

MoreScenarios ==
    { \* a predator within reach of an infected prey that is about to die
      [bodies |-> (1 :> Bd(8, 8, "Passive", 1, {}, NoMap, <<4, 4>>, <<8, 8>>, 20, 0))
                  @@ (2 :> Bd(10, e2, "Passive", 2, {}, SpeedInfected(0), <<1, 2>>, <<4, 4>>, 20, 0)),
       plants |-> NoMap,
       crosses |-> NoMap] : e2 \in {1, 2, 3} }
    \cup
    { \* a body whose upkeep exceeds its energy, and a relative out of view
      [bodies |-> (1 :> Bd(2, e1, "Passive", 1, Skill, NoMap, <<4, 4>>, <<12, 12>>, 12, 0))
                  @@ (2 :> Bd(20, 6, "Passive", 1, {}, NoMap, <<4, 4>>, <<4, 4>>, 12, 0)),
       plants |-> NoMap,
       crosses |-> NoMap] : e1 \in {3, 6} }
    \cup
    { \* a slow body on its way to a far cross, and a cross it leaves alone
      [bodies |-> (1 :> Bd(2, 8, "Passive", 1, {}, NoMap, <<speed, speed>>, <<12, 12>>, 20, 0)),
       plants |-> NoMap,
       crosses |-> (20 :> Cr(12, 3, 2, NoMap)) @@ (21 :> Cr(3, 3, 1, NoMap))] : speed \in {2, 5, 10} }
    \cup
    { \* a body hunted by a far body and by a near, slower one
      [bodies |-> (1 :> Bd(12, 5, "Passive", 1, skills, NoMap, <<4, 4>>, <<4, 4>>, 20, 0))
                  @@ (3 :> Bd(2, 10, "Passive", 3, {}, NoMap, <<speed3, speed3>>, <<12, 12>>, 20, 0))
                  @@ (4 :> Bd(17, 9, "Passive", 4, {}, NoMap, <<2, 2>>, <<8, 8>>, 20, 0)),
       plants |-> NoMap,
       crosses |-> NoMap] : skills \in {{}, {"PrioritizeFasterChasers"}}, speed3 \in {3, 5} }
    \cup
    { \* a body with one virus within reach of food that carries both viruses:
      \* a cross, or a prey
      [bodies |-> (1 :> Bd(8, 8, "Passive", 1, {}, SpeedInfected(p1), <<2, 4>>, <<8, 8>>, 20, 0))
                  @@ (IF prey THEN 2 :> Bd(10, 3, "Passive", 2, {}, BothInfected,
                                           <<1, 2>>, <<3, 4>>, 20, 0)
                      ELSE NoMap),
       plants |-> NoMap,
       crosses |-> IF prey THEN NoMap ELSE 20 :> Cr(10, 3, 2, BothInfected)]
          : p1 \in {0, 1}, prey \in BOOLEAN }
    \cup
    { \* one tick after body 3, carrying both viruses, stood at x = 7, chose
      \* body 1 and stepped towards it (main.rs:562-625); body 1 had had its
      \* turn before
      LET prey == Bd(12, 2, "Passive", 1, {}, NoMap, <<2, 2>>, <<4, 4>>, 20, -1)
          hunter == Bd(7, e3, "Passive", 3, {}, [v \in Virus |-> U(1)],
                       <<2, 4>>, <<6, 8>>, 20, -1)
      IN  [bodies |-> (1 :> [prey EXCEPT !.followed_by = 3 :> Snapshot(hunter)])
                      @@ (3 :> [hunter EXCEPT
                                   !.status = StFollowing(1, prey.pos, "Body"),
                                   !.pos = MoveBy(hunter.pos, prey.pos, hunter.speed,
                                                  Dist(hunter.pos, prey.pos), 1)]),
           plants |-> NoMap,
           crosses |-> NoMap] : e3 \in {3, 5} }
    \cup
    { \* one tick after body 3, carrying both viruses, at x = 16 and the slow
      \* body 4 at x = 9 chose body 1 between them and stepped towards it;
      \* body 1 had had its turn before
      LET prey == Bd(12, 2, "Passive", 1, {}, NoMap, <<speed, speed>>, <<4, 4>>, 20, -1)
          hunter == Bd(16, 3, "Passive", 3, {}, [v \in Virus |-> U(1)],
                       <<2, 4>>, <<6, 8>>, 20, -1)
          slow == Bd(9, 4, "Passive", 4, {}, NoMap, <<1, 1>>, <<4, 4>>, 20, -1)
          After(body) == [body EXCEPT
                             !.status = StFollowing(1, prey.pos, "Body"),
                             !.pos = MoveBy(body.pos, prey.pos, body.speed,
                                            Dist(body.pos, prey.pos), 1)]
      IN  [bodies |-> (1 :> [prey EXCEPT !.followed_by =
                                (3 :> Snapshot(hunter)) @@ (4 :> Snapshot(slow))])
                      @@ (3 :> After(hunter))
                      @@ (4 :> After(slow)),
           plants |-> NoMap,
           crosses |-> NoMap] : speed \in {2, 4} }

MoreInit ==
    /\ VisIdle
    /\ SelIdle
    /\ config_file = "valid"
    /\ configured = TRUE
    /\ \E w \in MoreScenarios :
          /\ bodies = w.bodies
          /\ plants = Store(w.plants)
          /\ crosses = Store(w.crosses)
          /\ plants_n = Cardinality(DOMAIN w.plants)
    /\ new_bodies = NoMap
    /\ removed_plants = NoMap
    /\ removed_bodies = {}
    /\ removed_crosses = NoMap
    /\ condition = NoCondition
    /\ now = 0
    /\ next_id = 30
    /\ births = 0
    /\ config = [PLANTS_N_FOR_ONE_STEP |-> 0, PLANT_DIE_CHANCE_DEN |-> 4]
    /\ pc = "start"
    /\ todo = {}
    /\ last = [k |-> "init", id |-> NoFood, food |-> NoFoodInfo, energy_before |-> 0,
                status_before |-> StIdle, again |-> FALSE, offspring |-> <<>>]
    /\ consumed = {}

MoreSpec == MoreInit /\ [][Next]_vars

\* the for loop of main.rs:313 goes on to the next body: a body leaves todo
SweepVisits == pc = "sweep" /\ \E id \in todo : todo' = todo \ {id}

\* the loop of main.rs:181 ends only with the process (main.rs:183-185): while
\* it runs, a tick that can start does start, a sweep that has begun visits
\* every body, and the removals follow it
MoreLiveSpec ==
    MoreInit /\ [][Next]_vars
    /\ WF_vars(TickStart) /\ WF_todo(SweepVisits) /\ WF_vars(TickEnd)

----------------------------------------------------------------------------
(* The ticks with the plants dying off and growing (main.rs:246-307):        *)
(* PLANTS_N_FOR_ONE_STEP = 1, a die chance of 1/2 or 1/4, entered with no   *)
(* condition or with one that started earlier                               *)

PlantScenarios ==
    { \* a body between two plants, die chance 1/2: a drought takes all plants
      [bodies |-> (1 :> Bd(8, 8, "Passive", 1, {}, NoMap, <<4, 4>>, <<12, 12>>, 20, 0)),
       plants |-> (10 :> Pl(10, "Banana")) @@ (11 :> Pl(14, "Grass")),
       crosses |-> NoMap,
       die_chance_den |-> 2] }
    \cup
    { \* four plants and no body, die chance 1/4
      [bodies |-> NoMap,
       plants |-> (10 :> Pl(2, "Banana")) @@ (11 :> Pl(6, "Grass"))
                  @@ (12 :> Pl(14, "Grass")) @@ (13 :> Pl(22, "Banana")),
       crosses |-> NoMap,
       die_chance_den |-> 4] }

\* the conditions a tick may find: none, or a drought or a rain that ends with
\* the coming tick (timestamp = 0 - lifetime) or with the tick after it
PlantConditions ==
    {NoCondition}
    \cup {[kind |-> c[1], timestamp |-> 0 - c[2] + late, lifetime |-> c[2]] :
             c \in {<<"Drought", 30>>, <<"Rain", 59>>}, late \in {0, 1}}

PlantInit ==
    /\ VisIdle
    /\ SelIdle
    /\ config_file = "valid"
    /\ configured = TRUE
    /\ \E w \in PlantScenarios :
          /\ bodies = w.bodies
          /\ plants = Store(w.plants)
          /\ crosses = Store(w.crosses)
          /\ plants_n = Cardinality(DOMAIN w.plants)
          /\ config = [PLANTS_N_FOR_ONE_STEP |-> 1, PLANT_DIE_CHANCE_DEN |-> w.die_chance_den]
    /\ new_bodies = NoMap
    /\ removed_plants = NoMap
    /\ removed_bodies = {}
    /\ removed_crosses = NoMap
    /\ condition \in PlantConditions
    /\ now = 0
    /\ next_id = 30
    /\ births = 0
    /\ pc = "start"
    /\ todo = {}
    /\ last = [k |-> "init", id |-> NoFood, food |-> NoFoodInfo, energy_before |-> 0,
                status_before |-> StIdle, again |-> FALSE, offspring |-> <<>>]
    /\ consumed = {}

PlantSpec == PlantInit /\ [][Next]_vars

\* PlantSpec with the fairness of the main loop (main.rs:181)
PlantLiveSpec ==
    PlantInit /\ [][Next]_vars
    /\ WF_vars(TickStart) /\ WF_todo(SweepVisits) /\ WF_vars(TickEnd)

----------------------------------------------------------------------------
(* The visibility query on its own: inputs drawn from bounded sets *)

\* identity of the item placed at lattice point (x, y)
ItemId(x, y) == y * area_x + x

\* lattice points of the arena on which a placement puts an item
Placements ==
    { {Pos(x, y) : x \in 0..area_x - 1, y \in 0..area_y - 1},
      {p \in {Pos(x, y) : x \in 0..area_x - 1, y \in 0..area_y - 1} : (p.x + p.y) % 2 = 0} }

\* every item is stored in the bag of the cell that contains its position
BagsOf(points) ==
    [c \in Cells |->
        LET here == {p \in points : get_cell_by_pos(p) = c}
        IN  [id \in {ItemId(p.x, p.y) : p \in here} |->
                [pos |-> CHOOSE p \in here : ItemId(p.x, p.y) = id]]]

SimIdle ==
    /\ config_file = "valid"
    /\ configured = TRUE
    /\ bodies = NoMap
    /\ plants = [c \in Cells |-> NoMap]
    /\ crosses = [c \in Cells |-> NoMap]
    /\ new_bodies = NoMap
    /\ removed_plants = NoMap
    /\ removed_bodies = {}
    /\ removed_crosses = NoMap
    /\ plants_n = 0
    /\ condition = [kind |-> "None", timestamp |-> 0, lifetime |-> 0]
    /\ now = 0
    /\ next_id = 0
    /\ births = 0
    /\ config = [PLANTS_N_FOR_ONE_STEP |-> 0, PLANT_DIE_CHANCE_DEN |-> 1]
    /\ pc = "off"
    /\ todo = {}
    /\ last = [k |-> "none"]
    /\ consumed = {}

VisInit ==
    /\ \E points \in Placements : vis_items = BagsOf(points)
    /\ \E x \in 1..area_x - 1, y \in 1..area_y - 1, r \in 0..MaxRadius :
          vis_body = [pos |-> Pos(x, y), vision_distance |-> r]
    /\ vis_out = {}
    /\ vis_done = FALSE
    /\ SelIdle
    /\ SimIdle

VisQuery ==
    /\ ~vis_done
    /\ vis_out' = GetVisible(vis_body.pos, vis_body.vision_distance, vis_items)
    /\ vis_done' = TRUE
    /\ UNCHANGED <<vis_body, vis_items, sel_vars, sim_vars>>

VisNext == VisQuery

VisSpec == VisInit /\ [][VisNext]_vars

\* all items of the bags, whatever their cell
VisAllItems == UNION {DOMAIN vis_items[c] : c \in Cells}
VisItemPos(id) == vis_items[CHOOSE c \in Cells : id \in DOMAIN vis_items[c]][id].pos

\* C1: the query returns exactly the items whose Euclidean distance to the
\* body is at most the vision radius: no item within the radius is missed and
\* no item farther away is returned.
VisibleExact ==
    vis_done =>
        vis_out = {id \in VisAllItems :
                      DistSq(vis_body.pos, VisItemPos(id)) <= Sq(vis_body.vision_distance)}

\* a query whose circle is cut by cell boundaries: some returned item lies in a
\* row other than the centre's, in a cell that is not fully covered, and some
\* item of an examined row is outside the circle
VisibleExactWitness ==
    /\ vis_done
    /\ \E id \in vis_out :
          LET c == get_cell_by_pos(VisItemPos(id))
          IN  /\ c.i # get_cell_by_pos(vis_body.pos).i
              /\ ~FullyCovered(vis_body.pos.x, vis_body.pos.y, vis_body.vision_distance, c.i, c.j)
    /\ \E id \in VisAllItems \ vis_out :
          get_cell_by_pos(VisItemPos(id)).i \in
              VisIMin(vis_body.pos.y, vis_body.vision_distance)
              ..VisIMax(vis_body.pos.y, vis_body.vision_distance)
    /\ \E c \in Cells :
          FullyCovered(vis_body.pos.x, vis_body.pos.y, vis_body.vision_distance, c.i, c.j)

----------------------------------------------------------------------------
(* main() from its first line: config_setup, the construction of the world, *)
(* and the ticks                                                            *)

\* the config file as config_setup finds it
ConfigFiles == {"missing", "malformed", "valid"}

\* utils.rs:38-52 with the Err arm of from_str taken as a config
ConfigLoadsMutant(file) == file # "missing"
\* utils.rs:38-52: read_to_string and from_str both return Ok
ConfigLoads(file) == file = "valid"

BootInit ==
    /\ VisIdle
    /\ SelIdle
    /\ config_file \in ConfigFiles
    /\ configured = FALSE
    /\ bodies = NoMap
    /\ plants = [c \in Cells |-> NoMap]
    /\ crosses = [c \in Cells |-> NoMap]
    /\ new_bodies = NoMap
    /\ removed_plants = NoMap
    /\ removed_bodies = {}
    /\ removed_crosses = NoMap
    /\ plants_n = 0
    /\ condition = NoCondition
    /\ now = 0
    /\ next_id = 30
    /\ births = 0
    /\ config = [PLANTS_N_FOR_ONE_STEP |-> 0, PLANT_DIE_CHANCE_DEN |-> 4]
    /\ pc = "boot"
    /\ todo = {}
    /\ last = [k |-> "init", id |-> NoFood, food |-> NoFoodInfo, energy_before |-> 0,
                status_before |-> StIdle, again |-> FALSE, offspring |-> <<>>]
    /\ consumed = {}

\* config_setup (utils.rs:37-72), called at main.rs:68: panic!() on Err
config_setup ==
    /\ pc = "boot"
    /\ IF ConfigLoads(config_file)
       THEN configured' = TRUE /\ pc' = "setup"
       ELSE configured' = FALSE /\ pc' = "panic"
    /\ UNCHANGED <<vis_vars, sel_vars, config_file, bodies, plants, crosses, new_bodies,
                   removed_plants, removed_bodies, removed_crosses, plants_n, condition, now,
                   next_id, births, config, todo, last, consumed>>

\* the worlds main() is followed from here: two bodies and one plant
BootScenarios ==
    {w \in Scenarios : w.crosses = NoMap /\ DOMAIN w.plants = {10} /\ DOMAIN w.bodies = {1, 2}
                       /\ w.bodies[1].skills = {} /\ w.bodies[1].division_threshold = U(12)}

\* main.rs:70-236: the registries are filled before the loop
WorldSetup ==
    /\ pc = "setup"
    /\ \E w \in BootScenarios :
          /\ bodies' = w.bodies
          /\ plants' = Store(w.plants)
          /\ crosses' = Store(w.crosses)
          /\ plants_n' = Cardinality(DOMAIN w.plants)
    /\ pc' = "start"
    /\ UNCHANGED <<vis_vars, sel_vars, boot_vars, new_bodies, removed_plants, removed_bodies,
                   removed_crosses, condition, now, next_id, births, config, todo, last,
                   consumed>>

BootNext ==
    \/ config_setup
    \/ WorldSetup
    \/ TickStart
    \/ \E id \in todo : BodyTurn(id)
    \/ TickEnd

BootSpec == BootInit /\ [][BootNext]_vars

----------------------------------------------------------------------------
(* The food selection of one body (main.rs:393-540) on its own: body 1 at    *)
(* x = 8 among a cross, a banana, a grass and a body of another type, one of  *)
(* the foods possibly chased by body 3                                        *)

\* the stationary foods of a selection world: id, type and position
SelCross == [id |-> 20, food_type |-> "Cross", pos |-> Pos(15, LineY)]
SelBanana == [id |-> 10, food_type |-> "Plant", pos |-> Pos(12, LineY)]
SelGrass(x) == [id |-> 11, food_type |-> "Plant", pos |-> Pos(x, LineY)]

\* the world in which the chaser (body 3, of the type of body 1) stood at
\* distance d of the food and has taken one chase turn (main.rs:562-625)
SelChased(W, food, d, speed) ==
    LET from == Pos(IF food.pos.x - d >= 0 THEN food.pos.x - d ELSE food.pos.x + d, LineY)
        chaser == Bd(from.x, 8, "Passive", 1, {}, NoMap, <<speed, speed>>, <<10, 10>>, 20, 0)
        W1 == Register([W EXCEPT !.bodies = With(@, 3, chaser)], 3, food)
    IN  [W1 EXCEPT !.bodies[3].status = StFollowing(food.id, food.pos, food.food_type),
                   !.bodies[3].pos = MoveBy(from, food.pos, speed, d, 1)]

\* what a selection world is drawn from: the skills and the speed of body 1,
\* the type of the cross (0: no cross), whether there is a banana, the place
\* of the grass (0: none), the energy of body 2 (0: no body 2), and the chase
\* of body 3 (d = 0: no body 3)
SelChoices ==
    {c \in [skills : {{}, {"WillArriveFirst"}},
            speed : {2, 4},
            cross : {0, 1, 2},
            banana : BOOLEAN,
            xg : {0, 10, 19},
            e2 : {0, 5, 8},
            food : {SelCross, SelBanana, SelGrass(10), SelGrass(19)},
            d : {0, 3, 6, 9},
            chaser_speed : {2, 5}] :
        IF c.d = 0 THEN c.food = SelCross /\ c.chaser_speed = 2
        ELSE /\ c.d > c.chaser_speed
             /\ c.food = SelCross => c.cross # 0
             /\ c.food = SelBanana => c.banana
             /\ c.food.id = 11 => c.xg = c.food.pos.x}

SelWorld(c) ==
    LET body == Bd(8, 8, "Passive", 1, c.skills, NoMap, <<c.speed, c.speed>>, <<10, 10>>, 20, 0)
        prey == Bd(11, c.e2, "Passive", 2, {}, NoMap, <<1, 1>>, <<4, 4>>, 20, 0)
        W == World((1 :> body) @@ (IF c.e2 = 0 THEN NoMap ELSE 2 :> prey),
                   Store((IF c.banana THEN 10 :> Pl(SelBanana.pos.x, "Banana") ELSE NoMap)
                         @@ (IF c.xg = 0 THEN NoMap ELSE 11 :> Pl(c.xg, "Grass"))),
                   Store(IF c.cross = 0 THEN NoMap
                         ELSE 20 :> Cr(SelCross.pos.x, 3, c.cross, NoMap)))
    IN  IF c.d = 0 THEN W ELSE SelChased(W, c.food, c.d, c.chaser_speed)

\* body 1 reaches main.rs:393 in a sweep in which the banana or body 2 may
\* already have been eaten (main.rs:551, 558)
SelInit ==
    /\ VisIdle
    /\ sel_body = 1
    /\ sel_food = {}
    /\ sel_done = FALSE
    /\ \E c \in SelChoices :
          /\ bodies = SelWorld(c).bodies
          /\ plants = SelWorld(c).plants
          /\ crosses = SelWorld(c).crosses
          /\ plants_n = Cardinality(AllIds(SelWorld(c).plants))
          /\ \E eaten \in SUBSET ({10} \cap AllIds(SelWorld(c).plants)) :
                 removed_plants = [id \in eaten |-> Entity(SelWorld(c).plants, id).pos]
          /\ removed_bodies \in SUBSET ({2} \cap DOMAIN SelWorld(c).bodies)
    /\ config_file = "valid"
    /\ configured = TRUE
    /\ new_bodies = NoMap
    /\ removed_crosses = NoMap
    /\ condition = NoCondition
    /\ now = 1
    /\ next_id = 30
    /\ births = 0
    /\ config = [PLANTS_N_FOR_ONE_STEP |-> 0, PLANT_DIE_CHANCE_DEN |-> 4]
    /\ pc = "sweep"
    /\ todo = {1}
    /\ last = [k |-> "none"]
    /\ consumed = {}

\* main.rs:394-540 for the body sel_body
SelQuery ==
    /\ ~sel_done
    /\ sel_food' = Foods(World(bodies, plants, crosses), sel_body, removed_plants, removed_bodies)
    /\ sel_done' = TRUE
    /\ UNCHANGED <<vis_vars, sel_body, sim_vars>>

SelNext == SelQuery

SelSpec == SelInit /\ [][SelNext]_vars

----------------------------------------------------------------------------
(* The food selection of a body with one skill: body 1 at x = 8, a cross at   *)
(* x = 15 that may be infected, and body 2 of another type at x = 11 that may *)
(* be hunted by body 3                                                        *)

PickPrey == [id |-> 2, food_type |-> "Body", pos |-> Pos(11, LineY)]

\* what such a world is drawn from: the skill and the speed of body 1, the
\* type of the cross (0: no cross) and whether it is infected, the speed of
\* body 2, and the hunt of body 3 (d = 0: no body 3)
PickChoices ==
    {c \in [skills : {{}} \cup {{x} : x \in {"AvoidInfectedCrosses", "EatCrossesOfMyType",
                                             "AliveWhenArrived", "ProfitableWhenArrived",
                                             "WillArriveFirst"}},
            speed : {2, 3, 4},
            cross : {0, 1, 2},
            infected : BOOLEAN,
            prey_speed : {2, 3},
            d : {0, 3, 6, 9},
            chaser_speed : {1, 5}] :
        /\ c.cross = 0 => ~c.infected
        /\ IF c.d = 0 THEN c.chaser_speed = 1 ELSE c.d > c.chaser_speed}

\* the world before the turn of body 3
PickWorldBefore(c) ==
    LET body == Bd(8, 8, "Passive", 1, c.skills, NoMap, <<c.speed, c.speed>>, <<10, 10>>, 20, 0)
        prey == Bd(PickPrey.pos.x, 5, "Passive", 2, {}, NoMap,
                   <<c.prey_speed, c.prey_speed>>, <<4, 4>>, 20, 0)
    IN  World((1 :> body) @@ (2 :> prey),
              Store(NoMap),
              Store(IF c.cross = 0 THEN NoMap
                    ELSE 20 :> Cr(SelCross.pos.x, 3, c.cross,
                                  IF c.infected THEN SpeedInfected(0) ELSE NoMap)))

PickWorld(c) ==
    IF c.d = 0 THEN PickWorldBefore(c)
    ELSE SelChased(PickWorldBefore(c), PickPrey, c.d, c.chaser_speed)

\* body 1 reaches main.rs:393 in a sweep in which body 3, if there is one,
\* has chosen body 2 and taken its chase turn
PickInit ==
    /\ VisIdle
    /\ sel_body = 1
    /\ sel_food = {}
    /\ sel_done = FALSE
    /\ \E c \in PickChoices :
          /\ c.d # 0 =>
                \E food \in Foods([PickWorld(c) EXCEPT !.bodies[3].pos.x = PickPrey.pos.x - c.d,
                                                       !.bodies[3].status = StIdle,
                                                       !.bodies[2].followed_by = NoMap],
                                   3, NoMap, {}) : food.id = PickPrey.id
          /\ bodies = PickWorld(c).bodies
          /\ plants = PickWorld(c).plants
          /\ crosses = PickWorld(c).crosses
    /\ plants_n = 0
    /\ removed_plants = NoMap
    /\ removed_bodies = {}
    /\ config_file = "valid"
    /\ configured = TRUE
    /\ new_bodies = NoMap
    /\ removed_crosses = NoMap
    /\ condition = NoCondition
    /\ now = 1
    /\ next_id = 30
    /\ births = 0
    /\ config = [PLANTS_N_FOR_ONE_STEP |-> 0, PLANT_DIE_CHANCE_DEN |-> 4]
    /\ pc = "sweep"
    /\ todo = {1}
    /\ last = [k |-> "none"]
    /\ consumed = {}

PickSpec == PickInit /\ [][SelNext]_vars

----------------------------------------------------------------------------
(* Properties of the reference graph (followed_by) *)

Now == World(bodies, plants, crosses)
Then == World(bodies', plants', crosses')

\* a tick has just ended: the removals of main.rs:649-694 are done
EndOfTick == pc = "start" /\ now > 0

\* the registry lookup of a FollowingTarget status (body.rs:1115-1141)
TargetExistsIn(W, status) ==
    IF status.t = "Body" THEN status.id \in DOMAIN W.bodies
    ELSE IF status.t = "Cross"
    THEN status.id \in DOMAIN W.crosses[get_cell_by_pos(status.pos)]
    ELSE status.id \in DOMAIN W.plants[get_cell_by_pos(status.pos)]
TargetFollowedBy(W, status) ==
    IF status.t = "Body" THEN W.bodies[status.id].followed_by
    ELSE IF status.t = "Cross"
    THEN W.crosses[get_cell_by_pos(status.pos)][status.id].followed_by
    ELSE W.plants[get_cell_by_pos(status.pos)][status.id].followed_by

\* every <<type of target, target, pursuer>> recorded in some followed_by
FollowedByEntries ==
    UNION {{<<"Body", t, p>> : p \in DOMAIN bodies[t].followed_by} : t \in DOMAIN bodies}
    \cup UNION {{<<"Plant", t, p>> : p \in DOMAIN Entity(plants, t).followed_by}
                   : t \in AllIds(plants)}
    \cup UNION {{<<"Cross", t, p>> : p \in DOMAIN Entity(crosses, t).followed_by}
                   : t \in AllIds(crosses)}

Following(P) == bodies[P].status.k = "FollowingTarget"

\* C2 as stated: at the end of every tick, the target of every body with
\* status FollowingTarget is still in its registry and its followed_by holds
\* an entry for that body.
FollowedTargetExistsAndKnows ==
    EndOfTick =>
        \A P \in DOMAIN bodies :
            Following(P) =>
                /\ TargetExistsIn(Now, bodies[P].status)
                /\ P \in DOMAIN TargetFollowedBy(Now, bodies[P].status)

\* C2: at the end of every tick, for every body with status FollowingTarget
\* whose target is still in its registry, the target's followed_by holds an
\* entry for that body (a target eaten by another body is gone while the
\* status still names it).
FollowedTargetKnows ==
    EndOfTick =>
        \A P \in DOMAIN bodies :
            (Following(P) /\ TargetExistsIn(Now, bodies[P].status)) =>
                P \in DOMAIN TargetFollowedBy(Now, bodies[P].status)
FollowedTargetKnowsWitness ==
    /\ EndOfTick
    /\ \E P \in DOMAIN bodies :
          /\ Following(P)
          /\ TargetExistsIn(Now, bodies[P].status)
          /\ P \in DOMAIN TargetFollowedBy(Now, bodies[P].status)

\* C3: at the end of every tick, every key of every followed_by is the id of
\* a body in the registry whose status is FollowingTarget on that entity.
FollowedByOnlyPursuers ==
    EndOfTick =>
        \A e \in FollowedByEntries :
            /\ e[3] \in DOMAIN bodies
            /\ bodies[e[3]].status.k = "FollowingTarget"
            /\ bodies[e[3]].status.t = e[1]
            /\ bodies[e[3]].status.id = e[2]

\* C4: in every step in which a body that was following a target ends with
\* status Idle, Walking, EscapingBody or FollowingTarget of another target,
\* the old target, if it still exists, no longer has the body in followed_by;
\* a chase that selects the same target again leaves the body registered.
StatusChangeUnregisters ==
    [][\A b \in DOMAIN bodies \cap DOMAIN bodies' :
          LET old == bodies[b].status
              new == bodies'[b].status
          IN  old.k = "FollowingTarget" =>
                /\ ( /\ \/ new.k \in {"Idle", "Walking", "EscapingBody"}
                        \/ new.k = "FollowingTarget" /\ new.id # old.id
                     /\ TargetExistsIn(Then, old) )
                      => b \notin DOMAIN TargetFollowedBy(Then, old)
                /\ ( /\ last'.k = "chase" /\ last'.id = b
                     /\ new.k = "FollowingTarget" /\ new.id = old.id )
                      => b \in DOMAIN TargetFollowedBy(Then, new)]_vars
StatusChangeUnregistersWitness ==
    /\ last.k = "chase"
    /\ last.status_before.k = "FollowingTarget"
    /\ bodies[last.id].status.k = "FollowingTarget"
    /\ bodies[last.id].status.id # last.status_before.id
    /\ TargetExistsIn(Now, last.status_before)
    /\ last.id \notin DOMAIN TargetFollowedBy(Now, last.status_before)

----------------------------------------------------------------------------
(* Properties of eating and procreation *)

\* the last step was a turn in which the body ate (main.rs:542-561)
Ate == last.k \in {"procreate", "walk", "idle"} /\ last.food.id # NoFood

\* the energy the registries hold for the entity a FoodInfo names
RegistryEnergy(food) ==
    IF food.food_type = "Body" THEN bodies[food.id].energy
    ELSE IF food.food_type = "Cross" THEN Entity(crosses, food.id).energy
    ELSE get_contained_energy(Entity(plants, food.id))

\* C5: right after a turn in which a body ate, its energy is the energy it had
\* before the meal plus the energy of the eaten entity (contained energy of a
\* plant, energy of a cross, energy of a prey body), and nothing else.
EatingAddsFoodEnergy ==
    Ate => bodies[last.id].energy = last.energy_before + RegistryEnergy(last.food)
EatingAddsFoodEnergyWitness ==
    /\ Ate
    /\ last.food.food_type = "Body"
    /\ RegistryEnergy(last.food) > 0
    /\ bodies[last.id].energy > last.energy_before

ExistsEntity(e) ==
    IF e[1] = "Body" THEN e[2] \in DOMAIN bodies
    ELSE IF e[1] = "Cross" THEN e[2] \in AllIds(crosses)
    ELSE e[2] \in AllIds(plants)

\* C6: an entity that has been eaten is in no registry from then on, is not
\* eaten a second time, and, if it is a body, takes no turn afterwards.
ConsumedIsGone ==
    /\ \A e \in consumed : ~ExistsEntity(e)
    /\ ~last.again
    /\ last.k \in {"die", "starve", "escape", "chase", "procreate", "walk", "idle"}
          => <<"Body", last.id>> \notin consumed

\* the two bodies the last procreation created (body.rs:712-729)
Children == {last.offspring[1], last.offspring[2]}

\* C7: right after a procreation, the energies of the two offspring sum to
\* the energy the parent had at the split, each being half of it.
OffspringShareEnergy ==
    last.k = "procreate" =>
        /\ last.offspring[1].energy + last.offspring[2].energy = bodies[last.id].energy
        /\ last.offspring[1].energy = last.offspring[2].energy
        /\ \A c \in DOMAIN new_bodies : new_bodies[c].energy = last.offspring[1].energy
OffspringShareEnergyWitness ==
    /\ last.k = "procreate"
    /\ bodies[last.id].energy > U(AVERAGE_DIVISION_THRESHOLD)
    /\ last.offspring[1].energy > 0
    /\ Cardinality(DOMAIN new_bodies) = 2

\* C8 as stated: right after a procreation, the speed and the vision
\* distance of each offspring lie in the deviation band around the parent's
\* initial_speed and initial_vision_distance.
OffspringInBand ==
    last.k = "procreate" =>
        \A child \in Children :
            /\ InBand(child.speed, bodies[last.id].initial_speed)
            /\ InBand(child.vision_distance, bodies[last.id].initial_vision_distance)

\* C8: right after a procreation, the initial_speed and the
\* initial_vision_distance of each offspring lie in the deviation band around
\* the parent's initial values; the offspring's speed and vision distance are
\* these values lowered by the penalty of every inherited virus, and equal to
\* them when the parent carries none.
OffspringBaselineInBand ==
    last.k = "procreate" =>
        \A child \in Children :
            LET parent == bodies[last.id]
            IN  /\ InBand(child.initial_speed, parent.initial_speed)
                /\ InBand(child.initial_vision_distance, parent.initial_vision_distance)
                /\ child.speed =
                      IF "SpeedVirus" \in DOMAIN parent.viruses
                      THEN child.initial_speed
                           - child.initial_speed \div SPEEDVIRUS_SPEED_DECREASE_DEN
                      ELSE child.initial_speed
                /\ child.vision_distance =
                      IF "VisionVirus" \in DOMAIN parent.viruses
                      THEN child.initial_vision_distance
                           - child.initial_vision_distance
                                \div VISIONVIRUS_VISION_DISTANCE_DECREASE_DEN
                      ELSE child.initial_vision_distance
OffspringBaselineInBandWitness ==
    /\ last.k = "procreate"
    /\ bodies[last.id].viruses # NoMap
    /\ bodies[last.id].speed < bodies[last.id].initial_speed
    /\ \E child \in Children : ~InBand(child.speed, bodies[last.id].initial_speed)
    /\ \A c \in DOMAIN new_bodies : new_bodies[c] \in Children

----------------------------------------------------------------------------
(* Properties of the healing progress *)

\* C9 as stated: in every step, for every body and every virus it carries
\* before and after the step, the healing progress does not decrease.
HealingProgressNeverDecreases ==
    [][\A b \in DOMAIN bodies \cap DOMAIN bodies' :
          \A v \in DOMAIN bodies[b].viruses \cap DOMAIN bodies'[b].viruses :
              bodies'[b].viruses[v] >= bodies[b].viruses[v]]_vars

\* the step is a turn of body b
TurnOf(b) ==
    /\ last'.id = b
    /\ last'.k \in {"die", "starve", "escape", "chase", "procreate", "walk", "idle"}

\* C9: the healing progress of a virus a body carries changes only in the
\* body's own turn; there it grows by the healing cost, also when the body
\* eats infected food in that turn, unless the turn's handle_viruses removes
\* the virus; a removed virus caught again from food in the same turn starts
\* at zero.
HealingProgressGrowsUntilCured ==
    [][\A b \in DOMAIN bodies \cap DOMAIN bodies' :
          \A v \in DOMAIN bodies[b].viruses :
              IF TurnOf(b)
              THEN IF v \in DOMAIN handle_viruses(bodies[b]).viruses
                   THEN /\ v \in DOMAIN bodies'[b].viruses
                        /\ bodies'[b].viruses[v] = bodies[b].viruses[v] + VirusCost(v)
                   ELSE v \in DOMAIN bodies'[b].viruses => bodies'[b].viruses[v] = 0
              ELSE /\ v \in DOMAIN bodies'[b].viruses
                   /\ bodies'[b].viruses[v] = bodies[b].viruses[v]]_vars
HealingProgressGrowsUntilCuredWitness ==
    /\ Ate
    /\ \E v \in DOMAIN last.food.viruses \cap DOMAIN bodies[last.id].viruses :
          bodies[last.id].viruses[v] > 0

\* C10: no body carries a virus whose healing progress has reached the heal
\* energy of that virus: the infection tick in which the progress reaches it
\* removes the virus.
CuredAtThreshold ==
    \A b \in DOMAIN bodies :
        \A v \in DOMAIN bodies[b].viruses : bodies[b].viruses[v] < VirusHealEnergy(v)

----------------------------------------------------------------------------
(* Properties of the turn of a body (main.rs:313-647) *)

\* the food the body `b` may choose in its turn, taken now
FoodsOf(b) == Foods(WorldAfterEnergy(b), b, removed_plants, removed_bodies)

\* C11: a Passive body keeps its position and its status in every step that
\* is not its own turn, and in every turn it takes alive with no eligible
\* food in view, an empty followed_by and an energy that does not exceed its
\* division threshold, it ends with status Idle at the position it had: as
\* long as it is in the registry it is Idle and does not move.
PassiveStaysIdle ==
    [][\A b \in DOMAIN bodies \cap DOMAIN bodies' :
          bodies[b].eating_strategy = "Passive" =>
              IF TurnOf(b)
              THEN ( /\ Forages(b)
                     /\ FoodsOf(b) = {}
                     /\ AfterEnergy(b).energy <= AfterEnergy(b).division_threshold )
                    => /\ bodies'[b].status.k = "Idle"
                       /\ bodies'[b].pos = bodies[b].pos
              ELSE /\ bodies'[b].status = bodies[b].status
                   /\ bodies'[b].pos = bodies[b].pos]_vars
\* a Passive body that was Idle with no food in the first tick is Idle with
\* no food again in the second
PassiveStaysIdleWitness ==
    /\ now = 2
    /\ last.k = "idle"
    /\ last.food.id = NoFood
    /\ last.status_before = StIdle
    /\ bodies[last.id].status = StIdle
    /\ bodies[last.id].skills = {"AvoidNewViruses"}

\* C12: a body whose energy at the death check of its turn is below MIN_ENERGY
\* ends the turn with status Cross and in removed_bodies; a body with status
\* Cross keeps it and keeps its position until the tick ends, and the end of
\* the tick takes it out of the body registry and leaves a cross keyed by its
\* id in the cross bag of the cell of its position.
DeadBecomesCross ==
    [][\A b \in DOMAIN bodies :
          /\ (TurnOf(b) /\ AfterViruses(b).energy < U(MIN_ENERGY))
                => /\ bodies'[b].status = StCross
                   /\ b \in removed_bodies'
          /\ bodies[b].status = StCross
                => IF pc' = "start"
                   THEN /\ b \notin DOMAIN bodies'
                        /\ b \in DOMAIN crosses'[get_cell_by_pos(bodies[b].pos)]
                        /\ crosses'[get_cell_by_pos(bodies[b].pos)][b].pos = bodies[b].pos
                   ELSE /\ b \in DOMAIN bodies'
                        /\ bodies'[b].status = StCross
                        /\ bodies'[b].pos = bodies[b].pos
                        /\ b \in removed_bodies']_vars
DeadBecomesCrossWitness ==
    /\ EndOfTick
    /\ \E b \in removed_bodies :
          /\ b \notin DOMAIN bodies
          /\ b \in AllIds(crosses)
          /\ b \in DOMAIN crosses[get_cell_by_pos(Entity(crosses, b).pos)]
          /\ Entity(crosses, b).energy < U(MIN_ENERGY)
          /\ Entity(crosses, b).timestamp = now


\* the ids a store holds, cell by cell
Bags(store) == [c \in Cells |-> DOMAIN store[c]]

\* C14: a turn of the sweep inserts nothing into and removes nothing from the
\* body registry and the plant and cross bags; it records the death, the
\* starvation, the eaten plant, cross or body, the dividing parent and the two
\* offspring in removed_bodies, removed_plants, removed_crosses and
\* new_bodies, where they stay until the sweep is over; the step after the
\* last turn removes everything recorded and inserts the offspring.
SweepBuffersChanges ==
    [][/\ pc = "sweep" =>
            /\ DOMAIN bodies' = DOMAIN bodies
            /\ Bags(plants') = Bags(plants)
            /\ Bags(crosses') = Bags(crosses)
            /\ removed_bodies \subseteq removed_bodies'
            /\ DOMAIN removed_plants \subseteq DOMAIN removed_plants'
            /\ DOMAIN removed_crosses \subseteq DOMAIN removed_crosses'
            /\ DOMAIN new_bodies \subseteq DOMAIN new_bodies'
            /\ last'.k \in {"die", "starve", "procreate"} => last'.id \in removed_bodies'
            /\ last'.k = "procreate" =>
                  /\ DOMAIN new_bodies' # DOMAIN new_bodies
                  /\ \A c \in DOMAIN new_bodies' \ DOMAIN new_bodies :
                         new_bodies'[c] \in {last'.offspring[1], last'.offspring[2]}
                  /\ DOMAIN new_bodies' \cap DOMAIN bodies' = {}
            /\ (last'.k \in {"procreate", "walk", "idle"} /\ last'.food.id # NoFood) =>
                  IF last'.food.food_type = "Body" THEN last'.food.id \in removed_bodies'
                  ELSE IF last'.food.food_type = "Cross"
                  THEN last'.food.id \in DOMAIN removed_crosses'
                  ELSE last'.food.id \in DOMAIN removed_plants'
       /\ pc = "end" =>
            /\ \A id \in removed_bodies : id \notin DOMAIN bodies'
            /\ \A id \in DOMAIN removed_plants : id \notin AllIds(plants')
            /\ \A id \in DOMAIN removed_crosses : id \notin AllIds(crosses')
            /\ \A id \in DOMAIN new_bodies :
                   id \in DOMAIN bodies' /\ bodies'[id] = new_bodies[id]]_vars
\* the sweep is over and nothing has been applied yet: the eaten plant is in
\* its bag, the parent in the registry, the offspring only in new_bodies
SweepBuffersChangesWitness ==
    /\ pc = "end"
    /\ last.k = "procreate"
    /\ last.id \in removed_bodies \cap DOMAIN bodies
    /\ last.food.food_type = "Plant"
    /\ last.food.id \in DOMAIN removed_plants \cap AllIds(plants)
    /\ Cardinality(DOMAIN new_bodies) = 2
    /\ DOMAIN new_bodies \cap DOMAIN bodies = {}


\* C16: a body that passes the death and upkeep checks of its turn with a
\* non-empty followed_by ends the turn with status EscapingBody; in that turn
\* it eats nothing (its energy is what the upkeep left, nothing is added to
\* the removal sets), is added to no followed_by, has no offspring, and its
\* turn is neither the chase nor the walk/idle step.
EscapeEndsTurn ==
    [][\A b \in DOMAIN bodies :
          (TurnOf(b) /\ Alive(b) /\ AfterEnergy(b).followed_by # NoMap) =>
              /\ last'.k = "escape"
              /\ bodies'[b].status.k = "EscapingBody"
              /\ bodies'[b].energy = AfterEnergy(b).energy
              /\ removed_bodies' = removed_bodies
              /\ removed_plants' = removed_plants
              /\ removed_crosses' = removed_crosses
              /\ consumed' = consumed
              /\ new_bodies' = new_bodies
              /\ \A e \in FollowedByEntries' : e[3] # b]_vars
\* a body that was chasing its prey flees from its own chaser
EscapeEndsTurnWitness ==
    /\ last.k = "escape"
    /\ last.status_before.k = "FollowingTarget"
    /\ bodies[last.id].status.k = "EscapingBody"
    /\ bodies[last.id].followed_by # NoMap
    /\ TargetExistsIn(Now, last.status_before)


\* the turn of the step is one in which the body ate (main.rs:545-561)
AteThen == last'.k \in {"procreate", "walk", "idle"} /\ last'.food.id # NoFood

\* C18: in a turn that reaches the eating step with some food to choose, the
\* body takes one of the selectable foods; it eats it (the food is recorded
\* in its removal set) exactly when its distance to it is at most its speed;
\* otherwise its energy is what the upkeep left, it is in the followed_by of
\* the target, its status is FollowingTarget(id, pos, type) of the target, it
\* is nearer to the target by exactly its speed, and no offspring is added.
ConsumeOrChase ==
    [][\A b \in DOMAIN bodies :
          (TurnOf(b) /\ Forages(b) /\ FoodsOf(b) # {}) =>
              LET body == AfterEnergy(b)
                  food == last'.food
                  near == DistSq(body.pos, food.pos) <= Sq(body.speed)
              IN  /\ food \in FoodsOf(b)
                  /\ AteThen <=> near
                  /\ near =>
                        /\ <<food.food_type, food.id>> \in consumed'
                        /\ IF food.food_type = "Body" THEN food.id \in removed_bodies'
                           ELSE IF food.food_type = "Cross"
                           THEN food.id \in DOMAIN removed_crosses'
                           ELSE food.id \in DOMAIN removed_plants'
                  /\ ~near =>
                        /\ last'.k = "chase"
                        /\ bodies'[b].energy = body.energy
                        /\ bodies'[b].status = StFollowing(food.id, food.pos, food.food_type)
                        /\ b \in DOMAIN TargetFollowedBy(Then, bodies'[b].status)
                        /\ Dist(bodies'[b].pos, food.pos) = Dist(body.pos, food.pos) - body.speed
                        /\ new_bodies' = new_bodies
                        /\ consumed' = consumed
                        /\ b \notin removed_bodies' \ removed_bodies]_vars
\* a body has chased a target it could not reach and then eaten it
ConsumeOrChaseWitness ==
    /\ Ate
    /\ last.status_before = StFollowing(last.food.id, last.food.pos, last.food.food_type)
    /\ bodies[last.id].pos = last.food.pos


\* C19 as stated: right after a turn in which a body ate, its position is
\* the position of the eaten target.
ConsumerStaysAtTarget ==
    Ate => bodies[last.id].pos = last.food.pos

\* C19: in a turn in which a body eats, its position is set to the position
\* of the target; a body that then divides, and a Passive body, end the turn
\* there; an Active body that does not divide takes the walk step in the same
\* turn and ends at the target's position plus its walking vector, wrapped;
\* no other step of the tick moves a body.
ConsumerSnapsThenWalks ==
    [][/\ AteThen =>
            LET body == bodies'[last'.id]
            IN  IF last'.k = "walk"
                THEN /\ body.status.k = "Walking"
                     /\ body.pos = wrap(Pos(last'.food.pos.x + body.status.pos.x,
                                            last'.food.pos.y + body.status.pos.y))
                ELSE body.pos = last'.food.pos
       /\ \A b \in DOMAIN bodies \cap DOMAIN bodies' :
              ~TurnOf(b) => bodies'[b].pos = bodies[b].pos]_vars
\* an Active body has eaten and walked on
ConsumerSnapsThenWalksWitness ==
    /\ Ate
    /\ last.k = "walk"
    /\ bodies[last.id].eating_strategy = "Active"
    /\ bodies[last.id].pos # last.food.pos
    /\ bodies[last.id].energy > last.energy_before


\* C20: a body that reaches the procreation step with energy above its
\* division threshold is recorded for removal and exactly two bodies with
\* distinct ids are recorded for insertion; with energy not above the
\* threshold the step records no new body and no removal of the body; the end
\* of the tick removes the recorded bodies and inserts the new ones.
ProcreationAddsTwo ==
    [][/\ \A b \in DOMAIN bodies :
              (TurnOf(b) /\ last'.k \in {"procreate", "walk", "idle"}) =>
                  IF bodies'[b].energy > bodies'[b].division_threshold
                  THEN /\ b \in removed_bodies'
                       /\ Cardinality(DOMAIN new_bodies' \ DOMAIN new_bodies) = 2
                  ELSE /\ new_bodies' = new_bodies
                       /\ b \in removed_bodies' => b \in removed_bodies
       /\ pc = "end" =>
              /\ \A b \in removed_bodies : b \notin DOMAIN bodies'
              /\ \A c \in DOMAIN new_bodies : c \in DOMAIN bodies']_vars


\* C21: the skill set of each offspring of a procreation is the parent's, or
\* the parent's with one absent skill added, or the parent's with one held
\* skill removed, never both; the offspring enter the registry with that
\* skill set, and no step changes the skill set of a body in the registry.
SkillsMutateByOne ==
    [][/\ last'.k = "procreate" =>
            \A i \in {1, 2} :
                LET child == last'.offspring[i].skills
                    parent == bodies'[last'.id].skills
                IN  /\ Cardinality(child \ parent) + Cardinality(parent \ child) <= 1
                    /\ parent = bodies[last'.id].skills
       /\ \A b \in DOMAIN bodies \cap DOMAIN bodies' :
              bodies'[b].skills = bodies[b].skills
       /\ \A c \in DOMAIN new_bodies \cap DOMAIN bodies' :
              pc = "end" => bodies'[c].skills = new_bodies[c].skills]_vars
\* one offspring has gained a skill, the other has lost one, and both are in
\* the registry after the tick
SkillsMutateByOneWitness ==
    /\ EndOfTick
    /\ Cardinality(DOMAIN new_bodies) = 2
    /\ \A c \in DOMAIN new_bodies :
           /\ c \in DOMAIN bodies
           /\ bodies[c].skills = new_bodies[c].skills
    /\ \E c, d \in DOMAIN new_bodies :
           /\ Cardinality(bodies[c].skills) = 2
           /\ bodies[d].skills = {}

----------------------------------------------------------------------------
(* Properties of death and of the crosses *)

\* the crosses the step inserts
NewCrosses == AllIds(crosses') \ AllIds(crosses)

\* C22: a body gets the status Cross only at the death check of its own turn
\* (energy below MIN_ENERGY or age above lifespan), the end of the tick
\* inserts a cross only for a body with that status, and a body that was
\* eaten in the tick leaves no cross at the end of that tick.
CrossOnlyForTheDead ==
    [][/\ \A b \in DOMAIN bodies \cap DOMAIN bodies' :
              (bodies'[b].status = StCross /\ bodies[b].status # StCross)
                  => TurnOf(b) /\ IsDead(b)
       /\ \A c \in NewCrosses :
              pc = "end" /\ c \in removed_bodies /\ bodies[c].status = StCross
       /\ pc = "end" =>
              \A e \in consumed : e[1] = "Body" => e[2] \notin NewCrosses]_vars


\* the energy of body b is used up in its turn: at most zero after
\* handle_viruses, or at most zero after handle_energy
EnergyUsedUp(b) ==
    \/ AfterViruses(b).energy <= 0
    \/ ~IsDead(b) /\ AfterEnergy(b).energy <= 0

\* C23: a body whose energy is at most zero after the infection tick or after
\* the upkeep of its turn is in removed_bodies after that turn, and the end of
\* that tick takes it out of the registry and leaves a cross keyed by its id
\* in the cross bag of the cell of its position.
EnergyUsedUpBecomesCross ==
    [][/\ \A b \in DOMAIN bodies :
              (TurnOf(b) /\ EnergyUsedUp(b)) =>
                  /\ b \in removed_bodies'
                  /\ bodies'[b].energy <= 0
       /\ pc = "end" =>
              \A b \in DOMAIN bodies :
                  bodies[b].energy <= 0 =>
                      /\ b \notin DOMAIN bodies'
                      /\ b \in DOMAIN crosses'[get_cell_by_pos(bodies[b].pos)]]_vars


\* C24: when a tick has ended, every body in the registry has an energy of
\* at least zero.
NoNegativeEnergyAfterTick ==
    EndOfTick => \A b \in DOMAIN bodies : bodies[b].energy >= 0
\* a body has run out of energy at the upkeep and is gone (it was not eaten,
\* left no cross and no offspring), and another body is still there
NoNegativeEnergyAfterTickWitness ==
    /\ EndOfTick
    /\ DOMAIN bodies # {}
    /\ new_bodies = NoMap
    /\ \E b \in removed_bodies :
           /\ <<"Body", b>> \notin consumed
           /\ b \notin AllIds(crosses)


\* the crosses that reach an age above CROSS_LIFESPAN within the ticks of a
\* behaviour
AgeingCrosses ==
    {c \in AllIds(crosses) : Entity(crosses, c).timestamp + CROSS_LIFESPAN < MaxTicks}

----------------------------------------------------------------------------
(* Properties of the escape *)

\* C30: a body that escapes flees from a recorded pursuer that is nearest to
\* it among all its recorded pursuers, or, when it holds
\* PrioritizeFasterChasers and some recorded pursuer is strictly faster than
\* it, nearest among the strictly faster ones; its status becomes
\* EscapingBody with the id and the type of that pursuer.
FleesFromTheNearest ==
    [][\A b \in DOMAIN bodies :
          (TurnOf(b) /\ last'.k = "escape") =>
              LET me == AfterEnergy(b)
                  all == DOMAIN me.followed_by
                  faster == {c \in all : me.followed_by[c].speed > me.speed}
                  pool == IF "PrioritizeFasterChasers" \in me.skills /\ faster # {}
                          THEN faster ELSE all
                  from == bodies'[b].status.id
              IN  /\ bodies'[b].status.k = "EscapingBody"
                  /\ from \in pool
                  /\ \A other \in pool :
                         DistSq(me.pos, me.followed_by[from].pos)
                             <= DistSq(me.pos, me.followed_by[other].pos)
                  /\ bodies'[b].status.bt = me.followed_by[from].body_type]_vars
\* a body holding PrioritizeFasterChasers has fled from a faster pursuer
\* although a slower pursuer is recorded nearer to it
FleesFromTheNearestWitness ==
    /\ last.k = "escape"
    /\ "PrioritizeFasterChasers" \in bodies[last.id].skills
    /\ \E from, other \in DOMAIN bodies[last.id].followed_by :
          /\ bodies[last.id].status = StEscaping(from, bodies[from].body_type)
          /\ bodies[last.id].followed_by[from].speed > bodies[last.id].speed
          /\ bodies[last.id].followed_by[other].speed <= bodies[last.id].speed
          /\ DistSq(bodies[last.id].pos, bodies[last.id].followed_by[other].pos)
                 < DistSq(bodies[last.id].pos, bodies[last.id].followed_by[from].pos)

----------------------------------------------------------------------------
(* Properties of the start of main() *)

\* C15: when the config file is missing or cannot be parsed, main() never
\* gets past config_setup: the world is not built and no tick starts; and a
\* tick only runs after config_setup has set the statics.
ConfigFailsFast ==
    /\ config_file # "valid" =>
          /\ pc \in {"boot", "panic"}
          /\ now = 0
          /\ bodies = NoMap
          /\ ~configured
    /\ (now > 0 \/ pc \in {"start", "sweep", "end"}) => configured
ConfigFailsFastWitness ==
    /\ pc = "panic"
    /\ config_file = "malformed"
    /\ ~configured
    /\ now = 0

----------------------------------------------------------------------------
(* Properties of the food selection *)

SelSelf == bodies[sel_body]
\* the plants and crosses of the world, as FoodInfo-like records with the
\* followed_by of the entity
SelStationary ==
    {[id |-> id, food_type |-> "Plant", e |-> Entity(plants, id)] : id \in AllIds(plants)}
    \cup {[id |-> id, food_type |-> "Cross", e |-> Entity(crosses, id)] : id \in AllIds(crosses)}
\* some other pursuer recorded on the entity is strictly faster than the
\* selecting body and strictly closer to the entity
FasterCloserPursuer(e) ==
    \E chaser_id \in DOMAIN e.followed_by \ {sel_body} :
        /\ e.followed_by[chaser_id].speed > SelSelf.speed
        /\ Dist(e.followed_by[chaser_id].pos, e.pos) < Dist(SelSelf.pos, e.pos)

\* C13: for a body with WillArriveFirst and a plant or cross whose followed_by
\* holds another body that is strictly faster and strictly closer to it, the
\* WillArriveFirst predicate is false and the selection does not return that
\* plant or cross.
WillArriveFirstLoses ==
    sel_done =>
        \A f \in SelStationary :
            ("WillArriveFirst" \in SelSelf.skills /\ FasterCloserPursuer(f.e))
                => /\ ~handle_will_arrive_first_food(SelSelf, sel_body, f.e)
                   /\ \A food \in sel_food :
                          ~(food.id = f.id /\ food.food_type = f.food_type)
\* the cross is in view, nothing else keeps it from being chosen, and the
\* selection falls through to another food
WillArriveFirstLosesWitness ==
    /\ sel_done
    /\ "WillArriveFirst" \in SelSelf.skills
    /\ \E f \in SelStationary :
          /\ f.food_type = "Cross"
          /\ FasterCloserPursuer(f.e)
          /\ handle_eat_crosses_of_my_type(SelSelf, f.e)
    /\ \E food \in sel_food : food.food_type = "Plant"

\* within the vision distance of the selecting body
SelInView(pos) == DistSq(SelSelf.pos, pos) <= Sq(SelSelf.vision_distance)

\* the crosses, plants and bodies in view that pass every predicate
\* (spec.md 4.4), leaving out the plants in skip_p and the bodies in skip_b
SelPassingCrosses ==
    {id \in AllIds(crosses) :
        LET cross == Entity(crosses, id)
        IN  /\ SelInView(cross.pos)
            /\ handle_eat_crosses_of_my_type(SelSelf, cross)
            /\ handle_alive_when_arrived_cross(SelSelf, cross)
            /\ handle_profitable_when_arrived_cross(SelSelf, cross)
            /\ handle_avoid_new_viruses(SelSelf, cross)
            /\ handle_will_arrive_first_food(SelSelf, sel_body, cross)
            /\ handle_do_not_compete_with_relatives(SelSelf, sel_body, cross.followed_by)}
SelPassingPlants(skip_p) ==
    {id \in AllIds(plants) \ skip_p :
        LET plant == Entity(plants, id)
        IN  /\ SelInView(plant.pos)
            /\ handle_alive_when_arrived_plant(SelSelf, plant)
            /\ handle_profitable_when_arrived_plant(SelSelf, plant)
            /\ handle_will_arrive_first_food(SelSelf, sel_body, plant)
            /\ handle_do_not_compete_with_relatives(SelSelf, sel_body, plant.followed_by)}
SelPassingBodies(skip_b) ==
    {id \in (DOMAIN bodies \ {sel_body}) \ skip_b :
        LET other == bodies[id]
        IN  /\ SelInView(other.pos)
            /\ other.body_type # SelSelf.body_type
            /\ other.energy < SelSelf.energy
            /\ handle_alive_when_arrived_body(SelSelf, other)
            /\ handle_profitable_when_arrived_body(SelSelf, other)
            /\ handle_avoid_new_viruses(SelSelf, other)
            /\ handle_will_arrive_first_body(SelSelf, sel_body, other)
            /\ handle_do_not_compete_with_relatives(SelSelf, sel_body, other.followed_by)}

\* the <<type, id>> the priority order allows as the target
SelByPriority(skip_p, skip_b) ==
    LET CrossPos(id) == Entity(crosses, id).pos
        PlantPos(id) == Entity(plants, id).pos
        BodyPos(id) == bodies[id].pos
        cs == SelPassingCrosses
        ps == SelPassingPlants(skip_p)
        bananas == {id \in ps : Entity(plants, id).kind = "Banana"}
        bs == SelPassingBodies(skip_b)
    IN  IF cs # {} THEN {<<"Cross", id>> : id \in Closest(SelSelf.pos, cs, CrossPos)}
        ELSE IF bananas # {}
        THEN {<<"Plant", id>> : id \in Closest(SelSelf.pos, bananas, PlantPos)}
        ELSE IF ps # {} THEN {<<"Plant", id>> : id \in Closest(SelSelf.pos, ps, PlantPos)}
        ELSE {<<"Body", id>> : id \in Closest(SelSelf.pos, bs, BodyPos)}

SelChosen == {<<food.food_type, food.id>> : food \in sel_food}

\* C17 as stated: the target is the nearest passing cross in view; if there
\* is none, the nearest passing Banana in view, else the nearest passing Grass
\* in view; if there is no passing plant, the nearest body in view of another
\* type with strictly less energy that passes; else there is no target.
ForageTargetByPriority ==
    sel_done => SelChosen = SelByPriority({}, {})

\* C17: the same order, where the plants already recorded in removed_plants
\* and the bodies already recorded in removed_bodies in this tick are not
\* candidates (a cross recorded in removed_crosses still is).
ForageTargetByPriorityOfRemaining ==
    sel_done => SelChosen = SelByPriority(DOMAIN removed_plants, removed_bodies)
\* a cross in view that does not pass, a Grass nearer than the Banana, a
\* weaker body of another type: the Banana is chosen
ForageTargetByPriorityOfRemainingWitness ==
    /\ sel_done
    /\ AllIds(crosses) # {}
    /\ SelPassingCrosses = {}
    /\ SelPassingBodies({}) # {}
    /\ removed_plants = NoMap
    /\ \E g \in SelPassingPlants({}) :
          /\ Entity(plants, g).kind = "Grass"
          /\ SelChosen = {<<"Plant", SelBanana.id>>}
          /\ DistSq(SelSelf.pos, Entity(plants, g).pos) < DistSq(SelSelf.pos, SelBanana.pos)

----------------------------------------------------------------------------
(* Properties of the skills in the food selection *)

\* C26: a body holding AvoidInfectedCrosses never selects (and so never chases
\* or eats) a cross that carries at least one virus.
AvoidsInfectedCrosses ==
    (sel_done /\ "AvoidInfectedCrosses" \in SelSelf.skills) =>
        \A food \in sel_food : food.food_type = "Cross" => food.viruses = NoMap

\* the crosses of the world within the vision distance of the selecting body
SelCrossesInView ==
    {id \in AllIds(crosses) :
        DistSq(SelSelf.pos, Entity(crosses, id).pos) <= Sq(SelSelf.vision_distance)}

\* C27: a cross of the body's own type is selected only by a body holding
\* EatCrossesOfMyType; a cross of another type is selected by a body with no
\* other skill whether or not it holds EatCrossesOfMyType.
OwnTypeCrossNeedsSkill ==
    sel_done =>
        /\ \A food \in sel_food :
               (/\ food.food_type = "Cross"
                /\ Entity(crosses, food.id).body_type = SelSelf.body_type)
                   => "EatCrossesOfMyType" \in SelSelf.skills
        /\ \A id \in SelCrossesInView :
               (/\ Entity(crosses, id).body_type # SelSelf.body_type
                /\ SelSelf.skills \subseteq {"EatCrossesOfMyType"})
                   => \E food \in sel_food : food.food_type = "Cross" /\ food.id = id

OwnTypeCrossNeedsSkillWitness ==
    /\ sel_done
    /\ SelSelf.skills = {"EatCrossesOfMyType"}
    /\ \E food \in sel_food :
          /\ food.food_type = "Cross"
          /\ Entity(crosses, food.id).body_type = SelSelf.body_type
          /\ Entity(crosses, food.id).viruses # NoMap

\* the skills whose predicate on a body divides by the difference of the speeds
ArrivalSkills == {"AliveWhenArrived", "ProfitableWhenArrived", "WillArriveFirst"}
\* the bodies the selecting body may hunt as far as type, energy, distance and
\* the bodies eaten in this sweep go (main.rs:501-510)
SelPrey ==
    {id \in DOMAIN bodies \ removed_bodies :
        /\ id # sel_body
        /\ bodies[id].body_type # SelSelf.body_type
        /\ SelSelf.energy > bodies[id].energy
        /\ DistSq(SelSelf.pos, bodies[id].pos) <= Sq(SelSelf.vision_distance)}

\* C28: a body holding AliveWhenArrived, ProfitableWhenArrived or
\* WillArriveFirst never selects a body that is at least as fast as itself (the
\* selection ends without an arithmetic error), and a body holding none of
\* the three is not held back by the speeds: when no cross is selected it
\* selects a body it may hunt, faster than itself or not.
NotFasterFailsClosed ==
    sel_done =>
        /\ SelSelf.skills \cap ArrivalSkills # {} =>
               \A food \in sel_food :
                   food.food_type = "Body" => SelSelf.speed > bodies[food.id].speed
        /\ (/\ SelSelf.skills \cap ArrivalSkills = {}
            /\ AllIds(plants) = {}
            /\ SelPrey # {}
            /\ \A id \in SelPrey : bodies[id].viruses = NoMap) =>
               (/\ sel_food # {}
                /\ \A food \in sel_food :
                       food.food_type = "Cross" \/ food.id \in SelPrey)

NotFasterFailsClosedWitness ==
    /\ sel_done
    /\ SelSelf.skills = {"AliveWhenArrived"}
    /\ AllIds(crosses) = {}
    /\ \E id \in SelPrey : SelSelf.speed = bodies[id].speed
    /\ sel_food = {}

\* the selecting body reaches the body `id` strictly before every other
\* pursuer recorded on it, a pursuer that is not faster than `id` never
\* reaching it; times d / (v - v_id) are compared by cross-multiplying
ArrivesBeforeThePursuers(id) ==
    LET delta == SelSelf.speed - bodies[id].speed
    IN  \A chaser_id \in DOMAIN bodies[id].followed_by \ {sel_body} :
            LET chaser == bodies[id].followed_by[chaser_id]
                chaser_delta == chaser.speed - bodies[id].speed
            IN  \/ chaser_delta <= 0
                \/ Dist(SelSelf.pos, bodies[id].pos) * chaser_delta
                       < Dist(chaser.pos, bodies[id].pos) * delta

\* C29: a body whose only skill is WillArriveFirst and which selects no cross
\* selects a slower body it may hunt exactly when its arrival time is strictly
\* less than that of every other pursuer recorded on that body, a recorded
\* pursuer that is not faster than that body counting as never arriving.
WillArriveFirstAtBody ==
    (/\ sel_done
     /\ SelSelf.skills = {"WillArriveFirst"}
     /\ \A food \in sel_food : food.food_type # "Cross") =>
        \A id \in SelPrey :
            SelSelf.speed > bodies[id].speed =>
                ((\E food \in sel_food : food.food_type = "Body" /\ food.id = id)
                    <=> ArrivesBeforeThePursuers(id))

----------------------------------------------------------------------------
(* Properties of the meal *)

\* the entity a FoodInfo names, as the registries hold it before the step
Victim(food) ==
    IF food.food_type = "Body" THEN bodies[food.id] ELSE Entity(crosses, food.id)

\* C31: in a turn that reaches the eating step, a body that eats a cross or a
\* body ends with the viruses it had after its handle_viruses together with
\* those of the food; a virus it did not have starts at progress zero and
\* lowers its speed or vision distance once, a virus it had keeps its progress
\* and lowers nothing; a body that eats a plant, or nothing, keeps its
\* viruses, speed and vision distance.
VirusesComeWithFood ==
    [][\A b \in DOMAIN bodies :
          (TurnOf(b) /\ last'.k \in {"procreate", "walk", "idle"}) =>
              LET me == AfterEnergy(b)
                  food == last'.food
                  fresh == IF food.id # NoFood /\ food.food_type \in {"Body", "Cross"}
                           THEN DOMAIN Victim(food).viruses \ DOMAIN me.viruses
                           ELSE {}
              IN  /\ DOMAIN bodies'[b].viruses = DOMAIN me.viruses \cup fresh
                  /\ (food.id # NoFood /\ food.food_type \in {"Body", "Cross"}) =>
                         DOMAIN Victim(food).viruses \subseteq DOMAIN bodies'[b].viruses
                  /\ \A v \in DOMAIN bodies'[b].viruses :
                         bodies'[b].viruses[v] = IF v \in fresh THEN 0 ELSE me.viruses[v]
                  /\ bodies'[b].speed =
                         IF "SpeedVirus" \in fresh
                         THEN me.speed - me.speed \div SPEEDVIRUS_SPEED_DECREASE_DEN
                         ELSE me.speed
                  /\ bodies'[b].vision_distance =
                         IF "VisionVirus" \in fresh
                         THEN me.vision_distance
                                  - me.vision_distance \div VISIONVIRUS_VISION_DISTANCE_DECREASE_DEN
                         ELSE me.vision_distance]_vars
\* a body that carried the speed virus has eaten a body carrying both viruses
VirusesComeWithFoodWitness ==
    /\ last.k \in {"walk", "idle"}
    /\ last.food.food_type = "Body"
    /\ DOMAIN last.food.viruses = Virus
    /\ DOMAIN bodies[last.id].viruses = Virus
    /\ bodies[last.id].viruses["VisionVirus"] = 0
    /\ bodies[last.id].viruses["SpeedVirus"] > 0
    /\ bodies[last.id].speed = 2
    /\ bodies[last.id].vision_distance = 6

\* C32: the turn of a body that was eaten earlier in the same sweep does
\* nothing: it eats nothing and removes no food, is recorded on no
\* followed_by, has no offspring, and keeps its status.
EatenBodyDoesNothing ==
    [][\A b \in DOMAIN bodies :
          (TurnOf(b) /\ <<"Body", b>> \in consumed) =>
              /\ consumed' = consumed
              /\ removed_plants' = removed_plants
              /\ removed_crosses' = removed_crosses
              /\ removed_bodies' = removed_bodies
              /\ plants_n' = plants_n
              /\ FollowedByEntries' = FollowedByEntries
              /\ new_bodies' = new_bodies
              /\ bodies'[b].status = bodies[b].status]_vars

\* C33: within one tick no plant, cross or body is eaten by more than one
\* body: a body never eats an entity that has been eaten since the tick began,
\* so the energy gained from an entity is at most its own.
EatenOnceInATick ==
    [][AteThen => <<last'.food.food_type, last'.food.id>> \notin consumed]_vars

----------------------------------------------------------------------------
(* Properties of the pursuers of a body *)

\* C34: a body escapes only from a pursuer that is in the registry and that
\* is following it or has been marked for removal in this very sweep: once
\* every pursuer of the body is gone from the registry or has turned to
\* something else, the body takes the escape branch no more.
FleesOnlyFromPursuers ==
    [][\A b \in DOMAIN bodies :
          (TurnOf(b) /\ last'.k = "escape") =>
              /\ bodies'[b].status.id \in DOMAIN bodies
              /\ \/ bodies'[b].status.id \in removed_bodies
                 \/ /\ bodies[bodies'[b].status.id].status.k = "FollowingTarget"
                    /\ bodies[bodies'[b].status.id].status.t = "Body"
                    /\ bodies[bodies'[b].status.id].status.id = b]_vars

----------------------------------------------------------------------------
(* Properties of the positions *)

\* C35: at the end of every tick every body of the registry stands strictly
\* inside the arena, 0 < x < area_x and 0 < y < area_y.
BodiesInsideTheArena ==
    EndOfTick =>
        \A b \in DOMAIN bodies :
            /\ 0 < bodies[b].pos.x /\ bodies[b].pos.x < area_x
            /\ 0 < bodies[b].pos.y /\ bodies[b].pos.y < area_y

----------------------------------------------------------------------------
(* Properties of the lookups *)

\* the cells whose bags get_visible! reads for a body (body.rs:137-170)
VisCells(body) ==
    UNION {{[i |-> i, j |-> j] : j \in JRangeForI(body.pos.x, body.pos.y, body.vision_distance, i)}
              : i \in VisIMin(body.pos.y, body.vision_distance)
                        ..VisIMax(body.pos.y, body.vision_distance)}

\* the entity is in the bag of the cell of the position it is looked up by
InBagAt(store, id, pos) == id \in DOMAIN store[get_cell_by_pos(pos)]

\* C36: no lookup of a tick fails: the cells the visibility query of any body
\* reads are cells of the grid; the target a body registers itself on is in
\* the body registry or in the bag of the cell of its recorded position; and
\* when the end of the tick applies the removal sets, every id in them is in
\* its registry.
LookupsSucceed ==
    /\ [](\A b \in DOMAIN bodies : VisCells(bodies[b]) \subseteq Cells)
    /\ [][/\ last'.k = "chase" =>
                 IF last'.food.food_type = "Body" THEN last'.food.id \in DOMAIN bodies
                 ELSE IF last'.food.food_type = "Cross"
                 THEN InBagAt(crosses, last'.food.id, last'.food.pos)
                 ELSE InBagAt(plants, last'.food.id, last'.food.pos)
          /\ (pc = "end" /\ pc' = "start") =>
                 /\ removed_bodies \subseteq DOMAIN bodies
                 /\ \A id \in DOMAIN removed_crosses :
                        InBagAt(crosses, id, removed_crosses[id])
                 /\ \A id \in DOMAIN removed_plants :
                        InBagAt(plants, id, removed_plants[id])]_vars
\* a tick has ended that removes a body and a plant, with a body in the
\* registry whose vision circle reaches beyond the grid on two sides
LookupsSucceedWitness ==
    /\ EndOfTick
    /\ removed_bodies # {}
    /\ DOMAIN removed_plants # {}
    /\ \E b \in DOMAIN bodies :
          /\ bodies[b].pos.y + bodies[b].vision_distance > area_y
          /\ bodies[b].pos.y - bodies[b].vision_distance < 0

----------------------------------------------------------------------------
(* Properties of the plants *)

\* the plants stored in the bags of all cells
StoredPlants == UNION {{<<c, id>> : id \in DOMAIN plants[c]} : c \in Cells}

\* C37: between two ticks, that is after the initial spawn and at the end of
\* every tick, the counter plants_n is the number of plants stored in the bags
\* of all cells
PlantsAreCounted == pc = "start" => plants_n = Cardinality(StoredPlants)

\* a tick in which plants died off, a plant grew and a plant was eaten has ended
PlantsAreCountedWitness ==
    /\ EndOfTick
    /\ next_id > 30
    /\ Cardinality(DOMAIN removed_plants) >= 2
    /\ \E f \in consumed : f[1] = "Plant"
    /\ plants_n > 0

----------------------------------------------------------------------------
(* Properties of the condition *)

IsActive(c) == c.kind # "None"

\* C39: the condition is a machine of two states: a step leaves an active
\* condition as it is or clears it, and clears it only when more than its
\* lifetime has passed since its start; a condition is started only when none
\* is active; and an active condition whose lifetime ends within the ticks of
\* the behaviour is cleared at last
ConditionIsTwoStateMachine ==
    /\ [][IsActive(condition) =>
              \/ condition' = condition
              \/ /\ condition' = NoCondition
                 /\ now' - condition.timestamp > condition.lifetime]_vars
    /\ [][IsActive(condition') /\ condition' # condition =>
              /\ ~IsActive(condition)
              /\ condition'.timestamp = now']_vars
    /\ (IsActive(condition) /\ condition.timestamp + condition.lifetime < MaxTicks)
           ~> ~IsActive(condition)

\* between two ticks a condition is active whose lifetime has passed exactly:
\* the tick before kept it, the coming tick clears it
ConditionIsTwoStateMachineWitness ==
    /\ EndOfTick
    /\ now < MaxTicks
    /\ IsActive(condition)
    /\ now - condition.timestamp = condition.lifetime

====
